---- MODULE Spec2Model ----
(***************************************************************************)
(* DataPrivScore: the plugin registry (services/privacy/plugins/registry), *)
(* the analysis entry points (services/privacy/privacy-index) and the      *)
(* equivalence-class builder of the k-anonymity plugin, as state machines. *)
(*                                                                         *)
(* Numbers: a weight is kept in hundredths (0.25 is 25).  A normalized     *)
(* weight and a weighted score are exact fractions [num, den]; the code    *)
(* computes them in floating point.                                        *)
(***************************************************************************)
EXTENDS Integers, Sequences, FiniteSets, TLC

VARIABLES
    plugins,            \* PluginRegistry.plugins: the Map, in insertion order
    executionOrder,     \* PluginRegistry.executionOrder
    last,               \* the last call and what it returned
    pluginsInitialized, \* privacy-index.ts: let pluginsInitialized
    parsedCSV,          \* the dataset handed to the k-anonymity functions
    quasi,              \* the quasi-identifier column names of the classification
    classes,            \* what buildEquivalenceClasses returned for them
    args                \* the arguments handed to the function under analysis

vars == <<plugins, executionOrder, last, pluginsInitialized, parsedCSV, quasi, classes, args>>

(***************************************************************************)
(* Plugins.  A plugin object is its metadata (id, dependencies,            *)
(* defaultWeight) and the kind of its configuration, which decides         *)
(* getDefaultConfig and validateConfig.                                    *)
(***************************************************************************)

\* A plugin object: its metadata and `kind`, the implementation behind
\* calculate, canCalculate, getDefaultConfig and validateConfig.
kAnonymityPlugin ==
    [id |-> "k-anonymity", dependencies |-> <<>>, defaultWeight |-> 25,
     kind |-> "k-anonymity"]

lDiversityPlugin ==
    [id |-> "l-diversity", dependencies |-> <<>>, defaultWeight |-> 20,
     kind |-> "l-diversity"]

tClosenessPlugin ==
    [id |-> "t-closeness", dependencies |-> <<"l-diversity">>, defaultWeight |-> 15,
     kind |-> "t-closeness"]

techniqueDetectionPlugin ==
    [id |-> "technique-detection", dependencies |-> <<>>, defaultWeight |-> 20,
     kind |-> "technique-detection"]

\* A plugin of the caller's own (PluginId allows custom ids): any id, any
\* dependencies; it has no configuration of its own and accepts every one.
CustomPlugin(id, dependencies) ==
    [id |-> id, dependencies |-> dependencies, defaultWeight |-> 10,
     kind |-> "custom"]

\* A field of a configuration object; a missing field reads as undefined.
Field(config, name) ==
    IF name \in DOMAIN config THEN config[name] ELSE "undefined"

\* typeof config[name] === 'number': the thresholds the model passes are
\* numbers, so a field is a number when it is there
IsNumber(config, name) == name \in DOMAIN config

kAnonymityDefaultConfig == [kThreshold |-> 5]

lDiversityDefaultConfig == [lThreshold |-> 2, diversityType |-> "distinct"]

\* tThreshold in hundredths
tClosenessDefaultConfig == [tThreshold |-> 15]

\* minConfidence in hundredths (the detector switches are left out)
techniqueDetectionDefaultConfig == [minConfidence |-> 30]

CustomDefaultConfig == [custom |-> TRUE]

getDefaultConfig(plugin) ==
    CASE plugin.kind = "k-anonymity" -> kAnonymityDefaultConfig
      [] plugin.kind = "l-diversity" -> lDiversityDefaultConfig
      [] plugin.kind = "t-closeness" -> tClosenessDefaultConfig
      [] plugin.kind = "technique-detection" -> techniqueDetectionDefaultConfig
      [] OTHER -> CustomDefaultConfig

\* validateConfig returns true or the error message: [ok, message]
Valid == [ok |-> TRUE, message |-> ""]

Invalid(message) == [ok |-> FALSE, message |-> message]

kAnonymityValidateConfig(config) ==
    IF ~IsNumber(config, "kThreshold") \/ config.kThreshold < 1
    THEN Invalid("kThreshold must be a positive number")
    ELSE Valid

lDiversityValidateConfig(config) ==
    IF ~IsNumber(config, "lThreshold") \/ config.lThreshold < 1
    THEN Invalid("lThreshold must be a positive number")
    ELSE IF Field(config, "diversityType") \notin {"distinct", "entropy", "recursive"}
    THEN Invalid("diversityType must be one of: distinct, entropy, recursive")
    ELSE Valid

tClosenessValidateConfig(config) ==
    IF \/ ~IsNumber(config, "tThreshold")
       \/ config.tThreshold <= 0
       \/ config.tThreshold > 100
    THEN Invalid("tThreshold must be a number between 0 and 1")
    ELSE Valid

techniqueDetectionValidateConfig(config) ==
    IF \/ ~IsNumber(config, "minConfidence")
       \/ config.minConfidence < 0
       \/ config.minConfidence > 100
    THEN Invalid("minConfidence must be a number between 0 and 1")
    ELSE Valid

validateConfig(plugin, config) ==
    CASE plugin.kind = "k-anonymity" -> kAnonymityValidateConfig(config)
      [] plugin.kind = "l-diversity" -> lDiversityValidateConfig(config)
      [] plugin.kind = "t-closeness" -> tClosenessValidateConfig(config)
      [] plugin.kind = "technique-detection" -> techniqueDetectionValidateConfig(config)
      [] OTHER -> Valid

(***************************************************************************)
(* The Map of registered plugins, kept as the sequence of its values in    *)
(* insertion order.                                                        *)
(***************************************************************************)

Range(s) == {s[i] : i \in 1..Len(s)}

MapHas(ps, id) == \E i \in 1..Len(ps) : ps[i].plugin.id = id

MapIndex(ps, id) == CHOOSE i \in 1..Len(ps) : ps[i].plugin.id = id

MapGet(ps, id) == ps[MapIndex(ps, id)]

MapKeys(ps) == [i \in 1..Len(ps) |-> ps[i].plugin.id]

\* Map.set: a present key keeps its place, a new key goes last
MapSet(ps, rp) ==
    IF MapHas(ps, rp.plugin.id)
    THEN [ps EXCEPT ![MapIndex(ps, rp.plugin.id)] = rp]
    ELSE Append(ps, rp)

MapDelete(ps, id) == SelectSeq(ps, LAMBDA rp : rp.plugin.id # id)

(***************************************************************************)
(* PluginRegistry                                                          *)
(***************************************************************************)

\* An optional value (options.weight?: number): {} when left out, else {v}
Absent == {}

Some(v) == {v}

\* opt ?? default
OrElse(opt, default) == IF opt = Absent THEN default ELSE CHOOSE v \in opt : TRUE

NoOptions == [weight |-> Absent, enabled |-> Absent, config |-> Absent]

RECURSIVE visit(_, _, _)
RECURSIVE visitDependencies(_, _, _, _)
RECURSIVE visitDependenciesUnchecked(_, _, _, _)

\* visit with the plugin pushed before its dependencies are visited
visitPreOrder(ps, st, pluginId) ==
    IF pluginId \in st.visited
    THEN st
    ELSE LET marked == [st EXCEPT !.visited = @ \cup {pluginId},
                                  !.order = Append(@, pluginId)]
             deps == IF MapHas(ps, pluginId)
                     THEN MapGet(ps, pluginId).plugin.dependencies
                     ELSE <<>>
         IN  visitDependencies(ps, marked, deps, 1)

\* updateExecutionOrder's inner visit; st is [visited, order]
visit(ps, st, pluginId) ==
    IF pluginId \in st.visited
    THEN st
    ELSE LET marked == [st EXCEPT !.visited = @ \cup {pluginId}]
             deps == IF MapHas(ps, pluginId)
                     THEN MapGet(ps, pluginId).plugin.dependencies
                     ELSE <<>>
             after == visitDependencies(ps, marked, deps, 1)
         IN  [after EXCEPT !.order = Append(@, pluginId)]

\* visitDependencies without the check this.plugins.has(depId)
visitDependenciesUnchecked(ps, st, deps, i) ==
    IF i > Len(deps)
    THEN st
    ELSE visitDependenciesUnchecked(ps, visit(ps, st, deps[i]), deps, i + 1)

\* for (const depId of dependencies) if (this.plugins.has(depId)) visit(depId)
visitDependencies(ps, st, deps, i) ==
    IF i > Len(deps)
    THEN st
    ELSE visitDependencies(
             ps,
             IF MapHas(ps, deps[i]) THEN visit(ps, st, deps[i]) ELSE st,
             deps,
             i + 1)

RECURSIVE visitKeys(_, _, _)
\* for (const pluginId of this.plugins.keys()) visit(pluginId)
visitKeys(ps, st, i) ==
    IF i > Len(ps)
    THEN st
    ELSE visitKeys(ps, visit(ps, st, ps[i].plugin.id), i + 1)

updateExecutionOrder(ps) ==
    visitKeys(ps, [visited |-> {}, order |-> <<>>], 1).order

\* The RegisteredPlugin that register builds from the plugin and the options
registeredPlugin(plugin, options) ==
    [plugin  |-> plugin,
     weight  |-> OrElse(options.weight, plugin.defaultWeight),
     enabled |-> OrElse(options.enabled, TRUE),
     config  |-> OrElse(options.config, getDefaultConfig(plugin))]

\* register: the registry [plugins, executionOrder] after the call
register(ps, plugin, options) ==
    LET set == MapSet(ps, registeredPlugin(plugin, options))
    IN  [plugins |-> set, executionOrder |-> updateExecutionOrder(set)]

\* unregister: the registry after the call and the value returned
unregister(ps, order, pluginId) ==
    LET result == MapHas(ps, pluginId)
        deleted == MapDelete(ps, pluginId)
    IN  [plugins |-> deleted,
         executionOrder |-> IF result THEN updateExecutionOrder(deleted) ELSE order,
         value |-> result]

setPluginEnabled(ps, pluginId, enabled) ==
    IF MapHas(ps, pluginId)
    THEN [plugins |-> [ps EXCEPT ![MapIndex(ps, pluginId)].enabled = enabled],
          value |-> TRUE]
    ELSE [plugins |-> ps, value |-> FALSE]

Min(a, b) == IF a < b THEN a ELSE b

Max(a, b) == IF a > b THEN a ELSE b

\* Math.max(0, Math.min(1, weight)), in hundredths
clampWeight(weight) == Max(0, Min(100, weight))

setPluginWeight(ps, pluginId, weight) ==
    IF MapHas(ps, pluginId)
    THEN [plugins |-> [ps EXCEPT ![MapIndex(ps, pluginId)].weight = clampWeight(weight)],
          value |-> TRUE]
    ELSE [plugins |-> ps, value |-> FALSE]

\* setPluginConfig without the validateConfig check
setPluginConfigUnvalidated(ps, pluginId, config) ==
    IF MapHas(ps, pluginId)
    THEN [plugins |-> [ps EXCEPT ![MapIndex(ps, pluginId)].config = config],
          value |-> TRUE]
    ELSE [plugins |-> ps, value |-> FALSE]

setPluginConfig(ps, pluginId, config) ==
    IF MapHas(ps, pluginId) /\ validateConfig(MapGet(ps, pluginId).plugin, config).ok
    THEN [plugins |-> [ps EXCEPT ![MapIndex(ps, pluginId)].config = config],
          value |-> TRUE]
    ELSE [plugins |-> ps, value |-> FALSE]

(***************************************************************************)
(* executeAll.  What a plugin does with the input of one call is `beh`:    *)
(* canCalculate(input) throws when beh[id].canThrows and otherwise returns  *)
(* beh[id].can; calculate(input, config) throws when beh[id].throws and    *)
(* otherwise returns an output with score beh[id].score.                   *)
(***************************************************************************)

Reason(text, detail) == [text |-> text, detail |-> detail]

PluginDisabled == Reason("Plugin disabled", "")

CannotCalculate == Reason("Cannot calculate with provided input", "")

\* `Execution error: ${error.message}`
ExecutionError(message) == Reason("Execution error: ", message)

Fraction(num, den) == [num |-> num, den |-> den]

RECURSIVE SumWeights(_, _)
\* enabledPlugins.reduce((sum, rp) => sum + rp.options.weight, 0)
SumWeights(rps, i) ==
    IF i > Len(rps) THEN 0 ELSE rps[i].weight + SumWeights(rps, i + 1)

\* enabledPlugins without the filter on options.enabled
enabledPluginsUnfiltered(ps, order) ==
    [i \in 1..Len(order) |-> MapGet(ps, order[i])]

\* this.executionOrder.map(id => this.plugins.get(id)!).filter(rp => rp.options.enabled)
enabledPlugins(ps, order) ==
    SelectSeq([i \in 1..Len(order) |-> MapGet(ps, order[i])], LAMBDA rp : rp.enabled)

totalWeight(ps, order) == SumWeights(enabledPlugins(ps, order), 1)

\* totalWeight > 0 ? registered.options.weight / totalWeight : 0
normalizedWeight(weight, total) ==
    IF total > 0 THEN Fraction(weight, total) ELSE Fraction(0, 1)

\* The result pushed for a plugin whose calculate returned
executionResult(registered, total, output) ==
    LET weight == normalizedWeight(registered.weight, total)
    IN  [pluginId |-> registered.plugin.id,
         score |-> output.score,
         weight |-> weight,
         weightedScore |-> Fraction(output.score * weight.num, weight.den)]

\* tryCalculate with the exception leaving the loop instead of being caught
tryCalculateNoCatch(ps, total, beh, acc, pluginId) ==
    IF beh[pluginId].throws
    THEN [acc EXCEPT !.calculated = Append(@, pluginId), !.threw = TRUE]
    ELSE [acc EXCEPT !.calculated = Append(@, pluginId),
                     !.results = Append(@,
                         executionResult(MapGet(ps, pluginId), total, beh[pluginId]))]

\* try { output = calculate(input, config); results.push(...) }
\* catch (error) { skippedPlugins.push(...) }
tryCalculate(ps, total, beh, acc, pluginId) ==
    IF beh[pluginId].throws
    THEN [acc EXCEPT !.calculated = Append(@, pluginId),
                     !.skippedPlugins =
              Append(@, [pluginId |-> pluginId, reason |-> ExecutionError("thrown")])]
    ELSE [acc EXCEPT !.calculated = Append(@, pluginId),
                     !.results = Append(@,
                         executionResult(MapGet(ps, pluginId), total, beh[pluginId]))]

\* executeStep without the check of options.enabled
executeStepIgnoringEnabled(ps, total, beh, acc, pluginId) ==
    IF ~MapHas(ps, pluginId)
    THEN acc
    ELSE IF beh[pluginId].canThrows
    THEN [acc EXCEPT !.asked = Append(@, pluginId), !.threw = TRUE]
    ELSE IF ~beh[pluginId].can
    THEN [acc EXCEPT !.asked = Append(@, pluginId),
                     !.skippedPlugins =
              Append(@, [pluginId |-> pluginId, reason |-> CannotCalculate])]
    ELSE tryCalculate(ps, total, beh, [acc EXCEPT !.asked = Append(@, pluginId)], pluginId)

\* executeStep with a disabled plugin passed over without an entry in
\* skippedPlugins
executeStepDroppingDisabled(ps, total, beh, acc, pluginId) ==
    IF ~MapHas(ps, pluginId) \/ ~MapGet(ps, pluginId).enabled
    THEN acc
    ELSE executeStepIgnoringEnabled(ps, total, beh, acc, pluginId)

\* One turn of the for loop over executionOrder; acc is what the call has
\* built so far: results, skippedPlugins, the calls of canCalculate (asked)
\* and of calculate (calculated) it made, and whether an exception left the
\* loop (canCalculate is called outside the try block).
executeStep(ps, total, beh, acc, pluginId) ==
    IF ~MapHas(ps, pluginId)
    THEN acc
    ELSE IF ~MapGet(ps, pluginId).enabled
    THEN [acc EXCEPT !.skippedPlugins =
              Append(@, [pluginId |-> pluginId, reason |-> PluginDisabled])]
    ELSE IF beh[pluginId].canThrows
    THEN [acc EXCEPT !.asked = Append(@, pluginId), !.threw = TRUE]
    ELSE IF ~beh[pluginId].can
    THEN [acc EXCEPT !.asked = Append(@, pluginId),
                     !.skippedPlugins =
              Append(@, [pluginId |-> pluginId, reason |-> CannotCalculate])]
    ELSE tryCalculate(ps, total, beh, [acc EXCEPT !.asked = Append(@, pluginId)], pluginId)

RECURSIVE executeLoop(_, _, _, _, _, _)
executeLoop(ps, order, total, beh, acc, i) ==
    IF i > Len(order) \/ acc.threw
    THEN acc
    ELSE executeLoop(ps, order, total, beh,
                     executeStep(ps, total, beh, acc, order[i]), i + 1)

\* f + g, over the larger denominator when it is a multiple of the other
AddFractions(f, g) ==
    IF g.den % f.den = 0
    THEN Fraction(f.num * (g.den \div f.den) + g.num, g.den)
    ELSE IF f.den % g.den = 0
    THEN Fraction(f.num + g.num * (f.den \div g.den), f.den)
    ELSE Fraction(f.num * g.den + g.num * f.den, f.den * g.den)

RECURSIVE SumFractions(_, _)
\* results.reduce((sum, r) => sum + r.weightedScore, 0), as one fraction
SumFractions(results, i) ==
    IF i > Len(results)
    THEN Fraction(0, 1)
    ELSE AddFractions(results[i].weightedScore, SumFractions(results, i + 1))

\* Math.round of a fraction with a positive denominator: floor(x + 1/2)
MathRound(f) == (2 * f.num + f.den) \div (2 * f.den)

NoResults ==
    [results |-> <<>>, skippedPlugins |-> <<>>, asked |-> <<>>, calculated |-> <<>>,
     threw |-> FALSE]

\* executeAll with the denominator taken over the plugins that return an
\* output: the weights of the surviving plugins renormalized
executeAllRenormalized(ps, order, beh) ==
    LET survivors == SelectSeq(enabledPlugins(ps, order),
                               LAMBDA rp : /\ beh[rp.plugin.id].can
                                           /\ ~beh[rp.plugin.id].throws)
        done == executeLoop(ps, order, SumWeights(survivors, 1), beh, NoResults, 1)
    IN  [results |-> done.results,
         overallScore |-> MathRound(SumFractions(done.results, 1)),
         pluginsExecuted |-> Len(done.results),
         skippedPlugins |-> done.skippedPlugins,
         asked |-> done.asked,
         calculated |-> done.calculated,
         threw |-> done.threw]

\* executeAll(input): AggregatedPluginResults, with the calls it made
executeAll(ps, order, beh) ==
    LET done == executeLoop(ps, order, totalWeight(ps, order), beh, NoResults, 1)
    IN  [results |-> done.results,
         overallScore |-> MathRound(SumFractions(done.results, 1)),
         pluginsExecuted |-> Len(done.results),
         skippedPlugins |-> done.skippedPlugins,
         asked |-> done.asked,
         calculated |-> done.calculated,
         threw |-> done.threw]

(***************************************************************************)
(* The registry as a state machine: one action per method.                 *)
(***************************************************************************)

\* The plugin objects the callers of this specification register:
\* t-closeness declares l-diversity as its dependency
RegistryPlugins == {lDiversityPlugin, tClosenessPlugin}

RegistryIds == {p.id : p \in RegistryPlugins}

\* Weights handed to register and setPluginWeight, in hundredths
WeightInputs == {0, 150}

\* Configurations handed to setPluginConfig: one l-diversity accepts, one
\* it rejects, one t-closeness accepts (each rejects the other's)
ConfigInputs ==
    {[lThreshold |-> 3, diversityType |-> "entropy"],
     [lThreshold |-> 0, diversityType |-> "distinct"],
     [tThreshold |-> 20]}

\* Configurations handed to register
RegisterConfigInputs == {[lThreshold |-> 0, diversityType |-> "distinct"]}

RegisterOptions ==
    {NoOptions}
    \cup {[NoOptions EXCEPT !.weight = Some(w)] : w \in WeightInputs}
    \cup {[NoOptions EXCEPT !.enabled = Some(FALSE)]}
    \cup {[NoOptions EXCEPT !.config = Some(c)] : c \in RegisterConfigInputs}

\* Scores a calculate returns
Scores == {30, 100}

\* What a plugin can do with an input: say it cannot calculate, throw from
\* calculate, or return an output
Behaviour(can, throws, score) ==
    [canThrows |-> FALSE, can |-> can, throws |-> throws, score |-> score]

\* canCalculate of l-diversity and t-closeness reads parsedCSV.rows.length
\* alone and returns
Behaviours ==
    {Behaviour(FALSE, FALSE, 0), Behaviour(TRUE, TRUE, 0)}
    \cup {Behaviour(TRUE, FALSE, sc) : sc \in Scores}

NoExec == [results |-> <<>>]

NoBeh == <<>>

\* No analysis has run yet
NoRun ==
    [path |-> "none", input |-> Absent, beh |-> NoBeh, calculated |-> <<>>,
     pluginResults |-> NoExec, outcome |-> "none", report |-> Absent]

\* A call and what it returned; an executeAll adds what the plugins did
\* (beh) and its outcome (exec), an analysis entry point adds its run
Call(op, pluginId, arg, value) ==
    [op |-> op, pluginId |-> pluginId, arg |-> arg, value |-> value,
     beh |-> NoBeh, exec |-> NoExec, run |-> NoRun]

NoCall == Call("new", "", Absent, TRUE)

NoCSV == [headers |-> <<>>, rows |-> <<>>]

\* No function is under analysis
NoArgs == <<>>

\* What the registry's methods leave alone
others == <<pluginsInitialized, parsedCSV, quasi, classes, args>>

RegistryInit ==
    /\ plugins = <<>>
    /\ executionOrder = <<>>
    /\ last = NoCall

Init ==
    /\ RegistryInit
    /\ pluginsInitialized = FALSE
    /\ parsedCSV = NoCSV
    /\ quasi = <<>>
    /\ classes = <<>>
    /\ args = NoArgs

Register(pluginObjects, optionSets) ==
    \E plugin \in pluginObjects, options \in optionSets :
        LET after == register(plugins, plugin, options) IN
        /\ plugins' = after.plugins
        /\ executionOrder' = after.executionOrder
        /\ last' = Call("register", plugin.id, options, TRUE)
        /\ UNCHANGED others

Unregister(ids) ==
    \E pluginId \in ids :
        LET after == unregister(plugins, executionOrder, pluginId) IN
        /\ plugins' = after.plugins
        /\ executionOrder' = after.executionOrder
        /\ last' = Call("unregister", pluginId, Absent, after.value)
        /\ UNCHANGED others

SetPluginEnabled ==
    \E pluginId \in RegistryIds, enabled \in BOOLEAN :
        LET after == setPluginEnabled(plugins, pluginId, enabled) IN
        /\ plugins' = after.plugins
        /\ last' = Call("setPluginEnabled", pluginId, enabled, after.value)
        /\ UNCHANGED <<executionOrder, others>>

SetPluginWeight ==
    \E pluginId \in RegistryIds, weight \in WeightInputs :
        LET after == setPluginWeight(plugins, pluginId, weight) IN
        /\ plugins' = after.plugins
        /\ last' = Call("setPluginWeight", pluginId, weight, after.value)
        /\ UNCHANGED <<executionOrder, others>>

SetPluginConfig ==
    \E pluginId \in RegistryIds, config \in ConfigInputs :
        LET after == setPluginConfig(plugins, pluginId, config) IN
        /\ plugins' = after.plugins
        /\ last' = Call("setPluginConfig", pluginId, config, after.value)
        /\ UNCHANGED <<executionOrder, others>>

ExecuteAll ==
    \E beh \in [Range(MapKeys(plugins)) -> Behaviours] :
        /\ last' = [Call("executeAll", "", Absent, TRUE) EXCEPT
                        !.beh = beh,
                        !.exec = executeAll(plugins, executionOrder, beh)]
        /\ UNCHANGED <<plugins, executionOrder, others>>

Next ==
    \/ Register(RegistryPlugins, RegisterOptions)
    \/ Unregister(RegistryIds)
    \/ SetPluginEnabled
    \/ SetPluginWeight
    \/ SetPluginConfig
    \/ ExecuteAll

Spec == Init /\ [][Next]_vars

(***************************************************************************)
(* The execution order under register and unregister alone (SpecOrder):    *)
(* plugins of the caller's own with any dependencies among their ids, each *)
(* registered with the default options.                                    *)
(***************************************************************************)

OrderIds == {"a", "b", "c"}

\* The longest dependencies list of a registered plugin
MaxDeps == 1

\* The dependencies lists: no longer than MaxDeps, no id twice; an id may
\* depend on itself and on ids that are not registered
DepLists ==
    {deps \in UNION {[1..n -> OrderIds] : n \in 0..MaxDeps} :
        \A i, j \in 1..Len(deps) : i # j => deps[i] # deps[j]}

OrderPlugins == {CustomPlugin(id, deps) : id \in OrderIds, deps \in DepLists}

NextOrder ==
    \/ Register(OrderPlugins, {NoOptions})
    \/ Unregister(OrderIds)

SpecOrder == Init /\ [][NextOrder]_vars

(***************************************************************************)
(* Properties of the registry (Spec)                                       *)
(***************************************************************************)

RECURSIVE SumSeq(_)
SumSeq(ns) == IF ns = <<>> THEN 0 ELSE Head(ns) + SumSeq(Tail(ns))

IsExecuteAll == last.op = "executeAll"

ResultIds == {last.exec.results[i].pluginId : i \in 1..Len(last.exec.results)}

SkippedIds ==
    {last.exec.skippedPlugins[i].pluginId : i \in 1..Len(last.exec.skippedPlugins)}

SkippedFor(pluginId, reason) ==
    [pluginId |-> pluginId, reason |-> reason] \in Range(last.exec.skippedPlugins)

\* The sum of the weights of the enabled registered plugins
EnabledWeight ==
    SumSeq([i \in 1..Len(plugins) |->
               IF plugins[i].enabled THEN plugins[i].weight ELSE 0])

\* Math.round(num / den) for den > 0
RoundDiv(num, den) == (2 * num + den) \div (2 * den)

\* The weighted scores of the results, added up: [num, den]
ReportedWeightedSum ==
    [num |-> SumSeq([i \in 1..Len(last.exec.results) |->
                        last.exec.results[i].weightedScore.num]),
     den |-> IF EnabledWeight > 0 THEN EnabledWeight ELSE 1]

\* C2: in executeAll a disabled plugin is skipped with reason "Plugin
\* disabled" and an enabled plugin whose canCalculate returns false with
\* reason "Cannot calculate with provided input"; calculate is not invoked
\* for either, neither is in results nor counted in pluginsExecuted, and the
\* weighted sum behind overallScore is made of the results alone.
C2_SkippedPluginsDoNotRun ==
    IsExecuteAll =>
        /\ \A rp \in Range(plugins) :
               LET id == rp.plugin.id IN
               /\ ~rp.enabled =>
                      /\ SkippedFor(id, PluginDisabled)
                      /\ id \notin Range(last.exec.calculated)
                      /\ id \notin ResultIds
               /\ (rp.enabled /\ ~last.beh[id].can) =>
                      /\ SkippedFor(id, CannotCalculate)
                      /\ id \notin Range(last.exec.calculated)
                      /\ id \notin ResultIds
        /\ last.exec.pluginsExecuted =
               Cardinality({rp \in Range(plugins) :
                   rp.enabled /\ last.beh[rp.plugin.id].can
                   /\ rp.plugin.id \in ResultIds})
        /\ \A i \in 1..Len(last.exec.results) :
               last.exec.results[i].weightedScore.den = ReportedWeightedSum.den
        /\ last.exec.overallScore =
               RoundDiv(ReportedWeightedSum.num, ReportedWeightedSum.den)

\* C2's case: an executeAll over a disabled plugin and an enabled one that
\* cannot calculate, next to none that ran.
C2_Witness ==
    /\ IsExecuteAll
    /\ \E rp \in Range(plugins) : ~rp.enabled /\ rp.weight > 0
    /\ \E rp \in Range(plugins) : rp.enabled /\ ~last.beh[rp.plugin.id].can
    /\ Len(last.exec.skippedPlugins) = 2

\* The stored weight of a registered plugin
WeightOf(pluginId) == MapGet(plugins, pluginId).weight

\* C3: with a plugin disabled, executeAll leaves its weight out of the
\* denominator: every result's normalized weight is weight / (sum of the
\* weights of the enabled plugins), no result is a disabled plugin's, and
\* overallScore = round(sum of score * normalized weight over the results).
C3_DisabledWeightExcluded ==
    (IsExecuteAll /\ EnabledWeight > 0) =>
        /\ \A i \in 1..Len(last.exec.results) :
               LET r == last.exec.results[i] IN
               /\ MapGet(plugins, r.pluginId).enabled
               /\ r.weight.den > 0
               /\ r.weight.num * EnabledWeight = WeightOf(r.pluginId) * r.weight.den
        /\ last.exec.overallScore =
               RoundDiv(SumSeq([i \in 1..Len(last.exec.results) |->
                                   last.exec.results[i].score
                                   * WeightOf(last.exec.results[i].pluginId)]),
                        EnabledWeight)

\* C3's case: executeAll with one plugin disabled (and its weight positive)
\* and another that ran and weighs in.
C3_Witness ==
    /\ IsExecuteAll
    /\ \E rp \in Range(plugins) : ~rp.enabled /\ rp.weight > 0
    /\ \E i \in 1..Len(last.exec.results) :
           /\ last.exec.results[i].weight.num > 0
           /\ last.exec.results[i].score > 0
    /\ last.exec.overallScore > 0

C7_SetPluginConfigValidated ==
    [][ (last'.op = "setPluginConfig" /\ MapHas(plugins, last'.pluginId)) =>
            LET id == last'.pluginId
                k == MapIndex(plugins, id)
            IN  IF validateConfig(plugins[k].plugin, last'.arg).ok
                THEN /\ last'.value = TRUE
                     /\ executionOrder' = executionOrder
                     /\ plugins' = [plugins EXCEPT ![k].config = last'.arg]
                ELSE /\ last'.value = FALSE
                     /\ executionOrder' = executionOrder
                     /\ plugins' = plugins ]_vars

\* C7's case: a setPluginConfig on a registered plugin that was rejected.
C7_Witness ==
    /\ last.op = "setPluginConfig"
    /\ MapHas(plugins, last.pluginId)
    /\ ~validateConfig(MapGet(plugins, last.pluginId).plugin, last.arg).ok
    /\ last.value = FALSE

\* Whether register's options fail validation: a config the plugin's
\* validateConfig rejects, or a weight outside [0, 1]
OptionsInvalid(plugin, options) ==
    \/ \E c \in options.config : ~validateConfig(plugin, c).ok
    \/ \E w \in options.weight : w < 0 \/ w > 100

PluginById(pluginId) == CHOOSE p \in RegistryPlugins : p.id = pluginId

\* C8 (as claimed): a register whose options fail validation is rejected
\* and leaves plugins and executionOrder as they were.
C8_InvalidRegisterRejected ==
    [][ ( /\ last'.op = "register"
          /\ OptionsInvalid(PluginById(last'.pluginId), last'.arg) ) =>
            (plugins' = plugins /\ executionOrder' = executionOrder) ]_vars

(***************************************************************************)
(* Properties of the execution order (SpecOrder)                           *)
(***************************************************************************)

RegisteredIds == {plugins[i].plugin.id : i \in 1..Len(plugins)}

\* The declared dependencies of a registered plugin that are registered
RegisteredDeps(pluginId) ==
    Range(MapGet(plugins, pluginId).plugin.dependencies) \cap RegisteredIds

RECURSIVE ReachableIn(_, _)
\* The ids reached from pluginId along 1..n dependency edges
ReachableIn(pluginId, n) ==
    IF n = 0
    THEN {}
    ELSE RegisteredDeps(pluginId)
         \cup UNION {ReachableIn(d, n - 1) : d \in RegisteredDeps(pluginId)}

Acyclic ==
    \A id \in RegisteredIds : id \notin ReachableIn(id, Cardinality(RegisteredIds))

PositionIn(order, pluginId) == CHOOSE k \in 1..Len(order) : order[k] = pluginId

\* C1: when the registered plugins' dependency graph is acyclic, every
\* registered plugin is in executionOrder strictly after each of its
\* declared dependencies that is registered, whatever the order of the
\* register and unregister calls.
C1_DependenciesFirst ==
    Acyclic =>
        \A id \in RegisteredIds :
            /\ id \in Range(executionOrder)
            /\ \A d \in RegisteredDeps(id) :
                   /\ d \in Range(executionOrder)
                   /\ PositionIn(executionOrder, d) < PositionIn(executionOrder, id)

\* C1's case: three plugins in a dependency chain, each registered before
\* the one it depends on, the last register being that of the chain's end.
C1_Witness ==
    /\ Acyclic
    /\ Len(plugins) = 3
    /\ last.op = "register"
    /\ last.pluginId = plugins[3].plugin.id
    /\ plugins[2].plugin.id \in RegisteredDeps(plugins[1].plugin.id)
    /\ plugins[3].plugin.id \in RegisteredDeps(plugins[2].plugin.id)
    /\ executionOrder =
           <<plugins[3].plugin.id, plugins[2].plugin.id, plugins[1].plugin.id>>

(***************************************************************************)
(* The analysis entry points of privacy-index.ts.  An input is kept by     *)
(* what the entry points and the built-in plugins test of it: the number   *)
(* of rows and of headers of parsedCSV, and the classification, which is   *)
(* missing or has a number of attributes.  The data behind a score is left *)
(* out: the score a built-in returns is any of Scores.                     *)
(***************************************************************************)

\* registerBuiltInPlugins registers these, in this order
BuiltInPlugins ==
    <<kAnonymityPlugin, lDiversityPlugin, tClosenessPlugin, techniqueDetectionPlugin>>

BuiltInIds == [i \in 1..Len(BuiltInPlugins) |-> BuiltInPlugins[i].id]

RECURSIVE registerEach(_, _, _)
registerEach(registry, pluginObjects, i) ==
    IF i > Len(pluginObjects)
    THEN registry
    ELSE registerEach(register(registry.plugins, pluginObjects[i], NoOptions),
                      pluginObjects, i + 1)

registerBuiltInPlugins(ps, order) ==
    registerEach([plugins |-> ps, executionOrder |-> order], BuiltInPlugins, 1)

\* if (!pluginsInitialized) { registerBuiltInPlugins(); pluginsInitialized = true }
ensurePluginsInitialized(ps, order, initialized) ==
    IF ~initialized
    THEN registerBuiltInPlugins(ps, order)
    ELSE [plugins |-> ps, executionOrder |-> order]

\* DEFAULT_PRIVACY_CONFIG.metricWeights, in hundredths
DefaultMetricWeights ==
    [kAnonymity |-> 25, lDiversity |-> 20, tCloseness |-> 15,
     techniqueDetection |-> 20, reidentificationRisk |-> 20]

\* { ...DEFAULT_PRIVACY_CONFIG, ...input.config }, of which the weights are kept
analysisConfig(input) ==
    [metricWeights |-> OrElse(input.metricWeights, DefaultMetricWeights)]

\* The object handed to setWeightConfiguration, as its entries
weightConfiguration(metricWeights) ==
    << <<"k-anonymity", metricWeights.kAnonymity>>,
       <<"l-diversity", metricWeights.lDiversity>>,
       <<"t-closeness", metricWeights.tCloseness>>,
       <<"technique-detection", metricWeights.techniqueDetection>> >>

RECURSIVE setWeightConfiguration(_, _, _)
\* for (const [id, weight] of Object.entries(config)) this.setPluginWeight(id, weight)
setWeightConfiguration(ps, entries, i) ==
    IF i > Len(entries)
    THEN ps
    ELSE setWeightConfiguration(
             setPluginWeight(ps, entries[i][1], entries[i][2]).plugins, entries, i + 1)

\* canCalculate of the built-ins: rows.length > 0, and for technique
\* detection && classification.attributes.length > 0, which reads a field
\* of undefined when the rows are there and the classification is not
builtInCanCalculate(kind, input) ==
    IF kind = "technique-detection"
    THEN IF input.parsedCSV.rows > 0
         THEN IF input.classification = Absent
              THEN [threw |-> TRUE, value |-> FALSE]
              ELSE [threw |-> FALSE,
                    value |-> OrElse(input.classification, <<>>).attributes > 0]
         ELSE [threw |-> FALSE, value |-> FALSE]
    ELSE [threw |-> FALSE, value |-> input.parsedCSV.rows > 0]

\* calculate of every built-in starts by reading classification.attributes
builtInCalculateThrows(input) == input.classification = Absent

\* What a registered plugin does with this input: a built-in as its code
\* says, with the score the data gives it; a plugin of the caller's own as
\* the caller wrote it
pluginBehaviour(plugin, input, scores, custom) ==
    IF plugin.kind = "custom"
    THEN custom[plugin.id]
    ELSE LET can == builtInCanCalculate(plugin.kind, input)
         IN  [canThrows |-> can.threw,
              can |-> can.value,
              throws |-> builtInCalculateThrows(input),
              score |-> scores[plugin.kind]]

behaviourOf(ps, input, scores, custom) ==
    [id \in Range(MapKeys(ps)) |->
        pluginBehaviour(MapGet(ps, id).plugin, input, scores, custom)]

\* executeOne(pluginId, input): the output or null, or the exception that
\* canCalculate or calculate threw, and the call of calculate it made
executeOne(ps, beh, pluginId) ==
    IF ~MapHas(ps, pluginId)
    THEN [threw |-> FALSE, output |-> Absent, calculated |-> <<>>]
    ELSE IF beh[pluginId].canThrows
    THEN [threw |-> TRUE, output |-> Absent, calculated |-> <<>>]
    ELSE IF ~beh[pluginId].can
    THEN [threw |-> FALSE, output |-> Absent, calculated |-> <<>>]
    ELSE IF beh[pluginId].throws
    THEN [threw |-> TRUE, output |-> Absent, calculated |-> <<pluginId>>]
    ELSE [threw |-> FALSE,
          output |-> Some([score |-> beh[pluginId].score]),
          calculated |-> <<pluginId>>]

NoOutputs == [threw |-> FALSE, outputs |-> <<>>, calculated |-> <<>>]

RECURSIVE executeEach(_, _, _, _, _)
\* The four executeOne calls of calculatePrivacyIndexWithPlugins, one after
\* the other until one throws; outputs[i] is the output of ids[i]
executeEach(ps, beh, ids, acc, i) ==
    IF i > Len(ids) \/ acc.threw
    THEN acc
    ELSE LET one == executeOne(ps, beh, ids[i])
         IN  executeEach(ps, beh, ids,
                         [threw |-> one.threw,
                          outputs |-> Append(acc.outputs, one.output),
                          calculated |-> acc.calculated \o one.calculated],
                         i + 1)

RECURSIVE calculateEach(_, _, _, _)
\* The four plugin.calculate(pluginInput) calls of calculatePrivacyIndex
calculateEach(input, scores, acc, i) ==
    IF i > Len(BuiltInPlugins) \/ acc.threw
    THEN acc
    ELSE calculateEach(input, scores,
             IF builtInCalculateThrows(input)
             THEN [acc EXCEPT !.threw = TRUE,
                              !.calculated = Append(@, BuiltInIds[i])]
             ELSE [acc EXCEPT !.outputs =
                                  Append(@, Some([score |-> scores[BuiltInIds[i]]])),
                              !.calculated = Append(@, BuiltInIds[i])],
             i + 1)

\* calculateReidentificationRisk reads classification.summary,
\* techniqueDetection.detectedTechniques and kAnonymity.kValue
riskThrows(input, kAnonymity, techniqueDetection) ==
    \/ input.classification = Absent
    \/ techniqueDetection = Absent
    \/ kAnonymity = Absent

\* generateRecommendations reads a field of each of its five arguments
recommendationsThrow(input, kAnonymity, lDiversity, tCloseness, techniqueDetection) ==
    \/ input.classification = Absent
    \/ kAnonymity = Absent
    \/ lDiversity = Absent
    \/ tCloseness = Absent
    \/ techniqueDetection = Absent

\* The metric added for the re-identification risk: score 100 - riskScore
riskMetric(riskScore, metricWeights) ==
    [name |-> "Re-identification Risk",
     score |-> 100 - riskScore,
     weight |-> Fraction(metricWeights.reidentificationRisk, 100),
     weightedScore |-> Fraction((100 - riskScore) * metricWeights.reidentificationRisk, 100)]

\* pluginResults.results.map(result => ({ name, score, weight, weightedScore }))
pluginMetricScores(results) ==
    [i \in 1..Len(results) |->
        [name |-> results[i].pluginId,
         score |-> results[i].score,
         weight |-> results[i].weight,
         weightedScore |-> results[i].weightedScore]]

\* calculateMetricScores: the four outputs under config.metricWeights
calculateMetricScores(outputs, riskScore, metricWeights) ==
    LET entries == weightConfiguration(metricWeights)
    IN  [i \in 1..Len(entries) |->
            LET output == OrElse(outputs[i], [score |-> 0])
            IN  [name |-> entries[i][1],
                 score |-> output.score,
                 weight |-> Fraction(entries[i][2], 100),
                 weightedScore |-> Fraction(output.score * entries[i][2], 100)]]
        \o <<riskMetric(riskScore, metricWeights)>>

\* Math.round(metricScores.reduce((sum, m) => sum + m.weightedScore, 0))
calculateOverallScore(metricScores) == MathRound(SumFractions(metricScores, 1))

NoReport == Absent

\* The PrivacyIndexResult: overallScore and metricScores of it
Report(metricScores) ==
    Some([overallScore |-> calculateOverallScore(metricScores),
          metricScores |-> metricScores])

\* How a run ended: the report returned or the exception that reached the
\* caller, with the calls of calculate the run made, in order
Run(path, input, beh, calculated, pluginResults, report) ==
    [path |-> path,
     input |-> input,
     beh |-> beh,
     calculated |-> calculated,
     pluginResults |-> pluginResults,
     outcome |-> IF report = NoReport THEN "exception" ELSE "report",
     report |-> report]

\* calculatePrivacyIndexWithPlugins(input): the registry after it and the run
calculatePrivacyIndexWithPlugins(ps, order, initialized, input, scores, custom, riskScore) ==
    LET ensured == ensurePluginsInitialized(ps, order, initialized)
        config == analysisConfig(input)
        weighted == setWeightConfiguration(
                        ensured.plugins, weightConfiguration(config.metricWeights), 1)
        beh == behaviourOf(weighted, input, scores, custom)
        pluginResults == executeAll(weighted, ensured.executionOrder, beh)
        extracted == IF pluginResults.threw
                     THEN [NoOutputs EXCEPT !.threw = TRUE]
                     ELSE executeEach(weighted, beh, BuiltInIds, NoOutputs, 1)
        output(i) == IF i <= Len(extracted.outputs) THEN extracted.outputs[i] ELSE Absent
        metricScores == pluginMetricScores(pluginResults.results)
                            \o <<riskMetric(riskScore, config.metricWeights)>>
        thrown == \/ extracted.threw
                  \/ riskThrows(input, output(1), output(4))
                  \/ recommendationsThrow(input, output(1), output(2), output(3), output(4))
    IN  [plugins |-> weighted,
         executionOrder |-> ensured.executionOrder,
         run |-> Run("plugins", input, beh,
                     pluginResults.calculated \o extracted.calculated,
                     pluginResults,
                     IF thrown THEN NoReport ELSE Report(metricScores))]

\* calculatePrivacyIndex(input), the legacy direct method: the run
calculatePrivacyIndex(input, scores, riskScore) ==
    LET config == analysisConfig(input)
        direct == calculateEach(input, scores, NoOutputs, 1)
    IN  Run("legacy", input, NoBeh, direct.calculated, NoExec,
            IF direct.threw
            THEN NoReport
            ELSE Report(calculateMetricScores(direct.outputs, riskScore,
                                              config.metricWeights)))

(***************************************************************************)
(* The entry points as a state machine (SpecRun): runs of both paths over  *)
(* well-formed and malformed inputs, between them the caller registering   *)
(* plugins of its own (one of them in the place of k-anonymity),           *)
(* unregistering plugins and resetting the registry.                       *)
(***************************************************************************)

\* Rows, headers and classified attributes of an input: none or some
Counts == {0, 2}

AnalysisInputs ==
    {[parsedCSV |-> [rows |-> r, headers |-> h],
      classification |-> c,
      metricWeights |-> Absent] :
        r \in Counts, h \in Counts,
        c \in {Absent} \cup {Some([attributes |-> a]) : a \in Counts}}

\* The caller's own plugins: one under a new id, one registered over the
\* built-in k-anonymity
RunPlugins == {CustomPlugin("custom", <<>>), CustomPlugin("k-anonymity", <<>>)}

RunCustomIds == {p.id : p \in RunPlugins}

\* The plugins the caller unregisters: a built-in
RunUnregisterIds == {"l-diversity"}

\* reidentificationRisk.riskScore of a run
RiskScores == {40}

\* The scores the built-ins return in one run
RunScores == {[id \in Range(BuiltInIds) |-> sc] : sc \in Scores}

\* What a plugin of the caller's own does in one run
RunBehaviours ==
    {Behaviour(FALSE, FALSE, 0), Behaviour(TRUE, TRUE, 0), Behaviour(TRUE, FALSE, 100)}

\* The registered plugins of the caller's own, whose behaviour is the
\* caller's
registeredCustomIds(ps) ==
    {id \in Range(MapKeys(ps)) : MapGet(ps, id).plugin.kind = "custom"}

CalculatePrivacyIndexWithPlugins ==
    \E input \in AnalysisInputs, scores \in RunScores,
       custom \in [registeredCustomIds(plugins) -> RunBehaviours],
       riskScore \in RiskScores :
        \E after \in {calculatePrivacyIndexWithPlugins(
                         plugins, executionOrder, pluginsInitialized,
                         input, scores, custom, riskScore)} :
        /\ plugins' = after.plugins
        /\ executionOrder' = after.executionOrder
        /\ pluginsInitialized' = TRUE
        /\ last' = [Call("calculatePrivacyIndexWithPlugins", "", Absent, TRUE) EXCEPT
                        !.run = after.run]
        /\ UNCHANGED <<parsedCSV, quasi, classes, args>>

CalculatePrivacyIndex ==
    \E input \in AnalysisInputs, scores \in RunScores, riskScore \in RiskScores :
        /\ last' = [Call("calculatePrivacyIndex", "", Absent, TRUE) EXCEPT
                        !.run = calculatePrivacyIndex(input, scores, riskScore)]
        /\ UNCHANGED <<plugins, executionOrder, pluginsInitialized,
                       parsedCSV, quasi, classes, args>>

\* resetPluginRegistry(): PluginRegistry.instance = new PluginRegistry()
ResetPluginRegistry ==
    /\ plugins' = <<>>
    /\ executionOrder' = <<>>
    /\ last' = Call("resetPluginRegistry", "", Absent, TRUE)
    /\ UNCHANGED others

NextRun ==
    \/ CalculatePrivacyIndexWithPlugins
    \/ CalculatePrivacyIndex
    \/ Register(RunPlugins, {NoOptions})
    \/ Unregister(RunUnregisterIds)
    \/ ResetPluginRegistry

SpecRun == Init /\ [][NextRun]_vars

(***************************************************************************)
(* Properties of the analysis entry points (SpecRun)                       *)
(***************************************************************************)

IsPluginRun == last.op = "calculatePrivacyIndexWithPlugins"

IsAnalysisRun == last.op \in {"calculatePrivacyIndexWithPlugins", "calculatePrivacyIndex"}

\* Rows, headers and a classification with attributes are all there
WellFormed(input) ==
    /\ input.parsedCSV.rows > 0
    /\ input.parsedCSV.headers > 0
    /\ input.classification # Absent
    /\ OrElse(input.classification, <<>>).attributes > 0

\* No rows, or no headers, or no classification
Malformed(input) ==
    \/ input.parsedCSV.rows = 0
    \/ input.parsedCSV.headers = 0
    \/ input.classification = Absent

\* The plugins whose calculate threw in the last run
Throwers ==
    {id \in DOMAIN last.run.beh :
        /\ ~last.run.beh[id].canThrows
        /\ last.run.beh[id].can
        /\ last.run.beh[id].throws}

\* The plugins that could calculate and returned an output in the last run
Returners ==
    {id \in DOMAIN last.run.beh :
        /\ ~last.run.beh[id].canThrows
        /\ last.run.beh[id].can
        /\ ~last.run.beh[id].throws}

ReportedNames ==
    LET metricScores == OrElse(last.run.report, [metricScores |-> <<>>]).metricScores
    IN  {metricScores[i].name : i \in 1..Len(metricScores)}

\* C6: when, in a run of calculatePrivacyIndexWithPlugins over a
\* well-formed input with the four built-in ids registered, the calculate
\* of exactly one registered plugin throws and every other plugin returns
\* an output, no exception reaches the caller: a report is returned, and it
\* carries the metric of every other plugin.
C6_ThrowingPluginDoesNotAbortRun ==
    (/\ IsPluginRun
     /\ WellFormed(last.run.input)
     /\ Range(BuiltInIds) \subseteq Range(MapKeys(plugins))
     /\ Cardinality(Throwers) = 1
     /\ Returners = Range(MapKeys(plugins)) \ Throwers)
    => /\ last.run.outcome = "report"
       /\ Returners \subseteq ReportedNames

\* C9: an analysis run (either entry point) over a dataset with no rows or
\* no headers, or with no classification, ends with an exception, and no
\* plugin's calculate has been invoked in it.
C9_MalformedInputFailsBeforeCalculate ==
    (IsAnalysisRun /\ Malformed(last.run.input))
    => /\ last.run.outcome = "exception"
       /\ last.run.calculated = <<>>

(***************************************************************************)
(* The equivalence classes of the k-anonymity plugin.  A string is the     *)
(* sequence of its characters, so that trim, toLowerCase and join do what  *)
(* they do to the characters; a row is the sequence of its cells and may   *)
(* be shorter than the headers, as parseCSV splits each line on its own.   *)
(* Indices are those of the code: columns and rows count from 0.           *)
(***************************************************************************)

\* The characters String.prototype.trim removes that the cells here hold
Whitespace == {" "}

RECURSIVE trimStart(_)
trimStart(value) ==
    IF value # <<>> /\ Head(value) \in Whitespace THEN trimStart(Tail(value)) ELSE value

RECURSIVE trimEnd(_)
trimEnd(value) ==
    IF value # <<>> /\ value[Len(value)] \in Whitespace
    THEN trimEnd(SubSeq(value, 1, Len(value) - 1))
    ELSE value

trim(value) == trimEnd(trimStart(value))

\* The lower-case form of a character, of the letters the cells here hold
lowerCaseChar(c) ==
    CASE c = "A" -> "a"
      [] c = "B" -> "b"
      [] OTHER -> c

toLowerCase(value) == [i \in 1..Len(value) |-> lowerCaseChar(value[i])]

\* value.trim().toLowerCase()
normalizeValue(value) == toLowerCase(trim(value))

\* The separator of keyParts.join('|||')
KeySeparator == <<"|", "|", "|">>

RECURSIVE join(_, _)
\* Array.prototype.join
join(parts, separator) ==
    IF parts = <<>>
    THEN <<>>
    ELSE IF Len(parts) = 1
    THEN parts[1]
    ELSE parts[1] \o separator \o join(Tail(parts), separator)

\* row[colIndex] || '': the empty string for a cell that is not there
cellOrEmpty(row, colIndex) ==
    IF colIndex + 1 \in 1..Len(row) THEN row[colIndex + 1] ELSE <<>>

\* headers.indexOf(name): the first position, from 0, or -1
indexOf(headers, name) ==
    IF \E i \in 1..Len(headers) : headers[i] = name
    THEN (CHOOSE i \in 1..Len(headers) :
              /\ headers[i] = name
              /\ \A j \in 1..(i - 1) : headers[j] # name) - 1
    ELSE -1

\* quasiIdentifiers.map(name => headers.indexOf(name)).filter(idx => idx !== -1)
quasiIndicesOf(headers, quasiIdentifiers) ==
    SelectSeq([i \in 1..Len(quasiIdentifiers) |-> indexOf(headers, quasiIdentifiers[i])],
              LAMBDA idx : idx # -1)

\* The normalized quasi-identifier values of a row, in the order of quasiIndices
rowKeyParts(row, quasiIndices) ==
    [i \in 1..Len(quasiIndices) |-> normalizeValue(cellOrEmpty(row, quasiIndices[i]))]

\* values[quasiIdentifierNames[i]] = value, for each i in turn: a name that
\* comes twice keeps the later value
rowValues(keyParts, quasiIdentifierNames) ==
    [name \in {quasiIdentifierNames[i] : i \in 1..Len(keyParts)} |->
        keyParts[CHOOSE i \in 1..Len(keyParts) :
                     /\ quasiIdentifierNames[i] = name
                     /\ \A j \in (i + 1)..Len(keyParts) : quasiIdentifierNames[j] # name]]

\* classMap keeps its entries [key, ec] in insertion order
classMapHas(classMap, key) == \E j \in 1..Len(classMap) : classMap[j].key = key

classMapIndex(classMap, key) == CHOOSE j \in 1..Len(classMap) : classMap[j].key = key

\* The new class of a row whose key is not in classMap: `EC-${classMap.size + 1}`
newClass(classMap, values, rowIndex) ==
    [id |-> <<"EC-", Len(classMap) + 1>>,
     quasiIdentifierValues |-> values,
     size |-> 1,
     rowIndices |-> <<rowIndex>>]

\* addRow with ec.size++ alone: the row index is not pushed
addRowSizeOnly(classMap, row, rowIndex, quasiIndices, quasiIdentifierNames) ==
    LET keyParts == rowKeyParts(row, quasiIndices)
        key == join(keyParts, KeySeparator)
    IN  IF classMapHas(classMap, key)
        THEN [classMap EXCEPT ![classMapIndex(classMap, key)].ec.size = @ + 1]
        ELSE Append(classMap,
                    [key |-> key,
                     ec |-> newClass(classMap, rowValues(keyParts, quasiIdentifierNames),
                                     rowIndex)])

\* The callback of parsedCSV.rows.forEach((row, rowIndex) => ...)
addRow(classMap, row, rowIndex, quasiIndices, quasiIdentifierNames) ==
    LET keyParts == rowKeyParts(row, quasiIndices)
        key == join(keyParts, KeySeparator)
    IN  IF classMapHas(classMap, key)
        THEN [classMap EXCEPT ![classMapIndex(classMap, key)].ec.size = @ + 1,
                              ![classMapIndex(classMap, key)].ec.rowIndices =
                                   Append(@, rowIndex)]
        ELSE Append(classMap,
                    [key |-> key,
                     ec |-> newClass(classMap, rowValues(keyParts, quasiIdentifierNames),
                                     rowIndex)])

RECURSIVE addRows(_, _, _, _, _)
addRows(classMap, rows, rowIndex, quasiIndices, quasiIdentifierNames) ==
    IF rowIndex >= Len(rows)
    THEN classMap
    ELSE addRows(addRow(classMap, rows[rowIndex + 1], rowIndex, quasiIndices,
                        quasiIdentifierNames),
                 rows, rowIndex + 1, quasiIndices, quasiIdentifierNames)

\* buildEquivalenceClasses: Array.from(classMap.values())
buildEquivalenceClasses(csv, quasiIndices, quasiIdentifierNames) ==
    LET classMap == addRows(<<>>, csv.rows, 0, quasiIndices, quasiIdentifierNames)
    IN  [j \in 1..Len(classMap) |-> classMap[j].ec]

(***************************************************************************)
(* calculateKAnonymity.  minSize starts at Infinity, kept here as Absent;  *)
(* complianceRate and averageClassSize are exact fractions.                *)
(***************************************************************************)

\* sizeDistribution[ec.size] = (sizeDistribution[ec.size] || 0) + 1, over
\* every class: the number of classes of each size
sizeDistributionOf(equivalenceClasses) ==
    [size \in {equivalenceClasses[j].size : j \in 1..Len(equivalenceClasses)} |->
        Cardinality({j \in 1..Len(equivalenceClasses) :
                        equivalenceClasses[j].size = size})]

RECURSIVE minSizeOf(_, _, _)
\* let minSize = Infinity; if (ec.size < minSize) minSize = ec.size
minSizeOf(equivalenceClasses, minSize, j) ==
    IF j > Len(equivalenceClasses)
    THEN minSize
    ELSE minSizeOf(equivalenceClasses,
                   IF minSize = Absent \/ equivalenceClasses[j].size < OrElse(minSize, 0)
                   THEN Some(equivalenceClasses[j].size)
                   ELSE minSize,
                   j + 1)

RECURSIVE compliantRecordsOf(_, _, _)
\* if (ec.size < kThreshold) violatingClasses.push(ec) else compliantRecords += ec.size
compliantRecordsOf(equivalenceClasses, kThreshold, j) ==
    IF j > Len(equivalenceClasses)
    THEN 0
    ELSE (IF equivalenceClasses[j].size < kThreshold
          THEN 0
          ELSE equivalenceClasses[j].size)
         + compliantRecordsOf(equivalenceClasses, kThreshold, j + 1)

\* The branch taken when quasiIndices.length === 0
trivialKAnonymity(csv, kThreshold) ==
    [kValue |-> Len(csv.rows),
     satisfiesKAnonymity |-> TRUE,
     kThreshold |-> kThreshold,
     equivalenceClassCount |-> 1,
     sizeDistribution |-> [size \in {Len(csv.rows)} |-> 1],
     violatingClasses |-> <<>>,
     complianceRate |-> Fraction(100, 1),
     averageClassSize |-> Fraction(Len(csv.rows), 1),
     quasiIdentifiers |-> <<>>]

\* The statistics over the classes built for the quasi-identifier columns
classKAnonymity(csv, quasiIndices, quasiIdentifiers, kThreshold) ==
    LET equivalenceClasses == buildEquivalenceClasses(csv, quasiIndices, quasiIdentifiers)
        minSize == minSizeOf(equivalenceClasses, Absent, 1)
        totalRecords == Len(csv.rows)
    IN  [kValue |-> OrElse(minSize, 0),
         satisfiesKAnonymity |-> minSize = Absent \/ OrElse(minSize, 0) >= kThreshold,
         kThreshold |-> kThreshold,
         equivalenceClassCount |-> Len(equivalenceClasses),
         sizeDistribution |-> sizeDistributionOf(equivalenceClasses),
         violatingClasses |-> SelectSeq(equivalenceClasses,
                                        LAMBDA ec : ec.size < kThreshold),
         complianceRate |->
             IF totalRecords > 0
             THEN Fraction(compliantRecordsOf(equivalenceClasses, kThreshold, 1) * 100,
                           totalRecords)
             ELSE Fraction(0, 1),
         averageClassSize |->
             IF Len(equivalenceClasses) > 0
             THEN Fraction(totalRecords, Len(equivalenceClasses))
             ELSE Fraction(0, 1),
         quasiIdentifiers |-> quasiIdentifiers]

\* calculateKAnonymity without the branch for no quasi-identifier column
calculateKAnonymityNoBranch(csv, quasiIdentifiers, kThreshold) ==
    classKAnonymity(csv, quasiIndicesOf(csv.headers, quasiIdentifiers),
                    quasiIdentifiers, kThreshold)

\* calculateKAnonymity(parsedCSV, classification, kThreshold); of the
\* classification it reads the names of the quasi-identifier attributes
calculateKAnonymity(csv, quasiIdentifiers, kThreshold) ==
    IF Len(quasiIndicesOf(csv.headers, quasiIdentifiers)) = 0
    THEN trivialKAnonymity(csv, kThreshold)
    ELSE classKAnonymity(csv, quasiIndicesOf(csv.headers, quasiIdentifiers),
                         quasiIdentifiers, kThreshold)

(***************************************************************************)
(* buildEquivalenceClasses applied to every dataset and every list of      *)
(* quasi-identifier names within the bounds (SpecEC)                       *)
(***************************************************************************)

\* The most rows of a dataset
MaxRows == 3

Headers == <<"age", "zip">>

\* Cells: two that differ only in case and surrounding blanks, one that is
\* the key separator itself, and the empty cell
CellValues == {<<"a">>, <<" ", "A">>, <<"|", "|", "|">>, <<>>}

RowValues == UNION {[1..n -> CellValues] : n \in 0..Len(Headers)}

Datasets ==
    {[headers |-> Headers, rows |-> rows] :
        rows \in UNION {[1..n -> RowValues] : n \in 0..MaxRows}}

\* The quasi-identifier names of the classification: headers, in any order,
\* and a name that is no header
QuasiLists ==
    {<<>>, <<"age">>, <<"zip">>, <<"age", "zip">>, <<"zip", "age">>, <<"ghost", "zip">>,
     <<"ghost">>}

InitEC ==
    /\ RegistryInit
    /\ pluginsInitialized = FALSE
    /\ parsedCSV \in Datasets
    /\ quasi \in QuasiLists
    /\ classes = <<>>
    /\ args = NoArgs

BuildEquivalenceClasses ==
    /\ last.op = "new"
    /\ classes' = buildEquivalenceClasses(
                      parsedCSV, quasiIndicesOf(parsedCSV.headers, quasi), quasi)
    /\ last' = Call("buildEquivalenceClasses", "", Absent, TRUE)
    /\ UNCHANGED <<plugins, executionOrder, pluginsInitialized, parsedCSV, quasi, args>>

\* The thresholds calculateKAnonymity is called with
KThresholds == {1, 2, 4}

CalculateKAnonymity ==
    \E kThreshold \in KThresholds :
        /\ last.op = "new"
        /\ last' = Call("calculateKAnonymity", "", kThreshold,
                        calculateKAnonymity(parsedCSV, quasi, kThreshold))
        /\ UNCHANGED <<plugins, executionOrder, pluginsInitialized,
                       parsedCSV, quasi, classes, args>>

NextEC ==
    \/ BuildEquivalenceClasses
    \/ CalculateKAnonymity

SpecEC == InitEC /\ [][NextEC]_vars

(***************************************************************************)
(* Properties of buildEquivalenceClasses (SpecEC)                          *)
(***************************************************************************)

IsBuilt == last.op = "buildEquivalenceClasses"

\* The classes whose rowIndices hold the row, each as often as it holds it
ClassesOfRow(rowIndex) ==
    {<<j, n>> \in (1..Len(classes)) \X (1..(MaxRows + 1)) :
        n \in 1..Len(classes[j].rowIndices) /\ classes[j].rowIndices[n] = rowIndex}

ClassSizes == [j \in 1..Len(classes) |-> classes[j].size]

\* C10: the classes buildEquivalenceClasses returns partition the rows:
\* every row index 0..rows-1 is in the rowIndices of exactly one class,
\* exactly once, no other index is in any; the size of each class is the
\* length of its rowIndices; the sizes sum to the number of rows.
C10_ClassesPartitionRows ==
    IsBuilt =>
        /\ \A rowIndex \in 0..(Len(parsedCSV.rows) - 1) :
               Cardinality(ClassesOfRow(rowIndex)) = 1
        /\ \A j \in 1..Len(classes) :
               /\ classes[j].size = Len(classes[j].rowIndices)
               /\ \A n \in 1..Len(classes[j].rowIndices) :
                      classes[j].rowIndices[n] \in 0..(Len(parsedCSV.rows) - 1)
        /\ SumSeq(ClassSizes) = Len(parsedCSV.rows)

\* Three rows over both columns fall into two classes: two rows that differ
\* in case and blanks alone share one, the third has its own
C10_Witness ==
    /\ IsBuilt
    /\ Len(parsedCSV.rows) = 3
    /\ quasi = <<"age", "zip">>
    /\ Len(classes) = 2
    /\ \E j \in 1..Len(classes) :
           /\ classes[j].size = 2
           /\ classes[j].rowIndices = <<0, 2>>
    /\ parsedCSV.rows[1] # parsedCSV.rows[3]

(***************************************************************************)
(* Properties of calculateKAnonymity (SpecEC)                              *)
(***************************************************************************)

IsKAnonymity == last.op = "calculateKAnonymity"

\* The columns calculateKAnonymity groups the rows by
QuasiIndices == quasiIndicesOf(parsedCSV.headers, quasi)

\* The classes of the dataset for those columns
DatasetClasses == buildEquivalenceClasses(parsedCSV, QuasiIndices, quasi)

DatasetClassSizes == {DatasetClasses[j].size : j \in 1..Len(DatasetClasses)}

\* C11: when some quasi-identifier is a header, the result of
\* calculateKAnonymity has kValue equal to the size of the smallest
\* equivalence class (no class is smaller, and some class has that size),
\* and satisfiesKAnonymity is true exactly when kValue >= kThreshold.
C11_KValueIsSmallestClass ==
    (IsKAnonymity /\ Len(QuasiIndices) > 0)
    => /\ \A size \in DatasetClassSizes : last.value.kValue <= size
       /\ DatasetClassSizes # {} => last.value.kValue \in DatasetClassSizes
       /\ last.value.satisfiesKAnonymity <=> (last.value.kValue >= last.value.kThreshold)

\* C12: when no quasi-identifier name is a header (none classified, or
\* none among the headers), calculateKAnonymity reports one class holding
\* all rows: kValue is the row count, equivalenceClassCount is 1, there is
\* no violating class, complianceRate is 100 and satisfiesKAnonymity is
\* true whatever the threshold.
C12_NoQuasiIdentifierIsOneClass ==
    (IsKAnonymity /\ Len(QuasiIndices) = 0)
    => /\ last.value.kValue = Len(parsedCSV.rows)
       /\ last.value.equivalenceClassCount = 1
       /\ last.value.violatingClasses = <<>>
       /\ last.value.complianceRate = Fraction(100, 1)
       /\ last.value.satisfiesKAnonymity

\* Two rows, the only quasi-identifier name is no header, and a threshold
\* above the row count
C12_Witness ==
    /\ IsKAnonymity
    /\ quasi # <<>>
    /\ Len(QuasiIndices) = 0
    /\ Len(parsedCSV.rows) = 2
    /\ last.value.kThreshold > Len(parsedCSV.rows)
    /\ last.value.satisfiesKAnonymity

(***************************************************************************)
(* Properties of the report (SpecRun)                                      *)
(***************************************************************************)

NoMetrics == [overallScore |-> 0, metricScores |-> <<>>]

\* The report of the last run, when it returned one
LastReport == OrElse(last.run.report, NoMetrics)

IsReported == IsAnalysisRun /\ last.run.outcome = "report"

\* The weighted scores of the report over one denominator: that of the
\* plugin metrics times 100
WeightedScoreOver(metric, den) ==
    (metric.weightedScore.num * den) \div metric.weightedScore.den

ReportDenominator ==
    LET dens == {LastReport.metricScores[i].weightedScore.den :
                    i \in 1..Len(LastReport.metricScores)}
    IN  100 * (CHOOSE d \in dens : \A e \in dens : d >= e)

ReportWeightedSum ==
    SumSeq([i \in 1..Len(LastReport.metricScores) |->
               WeightedScoreOver(LastReport.metricScores[i], ReportDenominator)])

\* C13: the overallScore of a returned report, every metric score being in
\* 0..100, is an integer in 0..100 and is the sum of the weightedScore of
\* its metricScores, rounded.
C13_OverallScoreInRange ==
    (/\ IsReported
     /\ \A i \in 1..Len(LastReport.metricScores) :
            LastReport.metricScores[i].score \in 0..100)
    => /\ LastReport.overallScore \in 0..100
       /\ LastReport.overallScore = RoundDiv(ReportWeightedSum, ReportDenominator)

\* The plugins executeAll skipped in the last run, each with its reason
RunSkipped ==
    IF IsPluginRun /\ ~last.run.pluginResults.threw
    THEN Range(last.run.pluginResults.skippedPlugins)
    ELSE {}

\* The skipped plugins the report of the last run names, each with its reason
ReportSkipped ==
    IF "skippedPlugins" \in DOMAIN LastReport
    THEN Range(LastReport.skippedPlugins)
    ELSE {}

\* C14: the report returned by a run names, with its reason, every plugin
\* that executeAll skipped in that run (disabled, not applicable or failed).
C14_ReportNamesSkippedPlugins ==
    IsReported => RunSkipped \subseteq ReportSkipped

(***************************************************************************)
(* calculateLDiversity (plugins/l-diversity).  The distribution of a class *)
(* is a plain object, `const distribution: Record<string, number> = {}`,   *)
(* kept here as its own properties [key, count] in insertion order.  A     *)
(* plain object inherits `__proto__` from Object.prototype: reading it     *)
(* gives an object, and assigning a value that is no object to it is       *)
(* ignored, so that key never becomes a property of the distribution.      *)
(* The entropy of a class is not followed.                                 *)
(***************************************************************************)

\* The sensitive value "__proto__"
ProtoKey == <<"_", "_", "p", "r", "o", "t", "o", "_", "_">>

\* The separator of the combined sensitive value: join('|')
SensitiveSeparator == <<"|">>

\* sensitiveIndices.map(idx => normalizeValue(row[idx] || '')).join('|')
sensitiveValueOf(row, sensitiveIndices) ==
    join([i \in 1..Len(sensitiveIndices) |->
             normalizeValue(cellOrEmpty(row, sensitiveIndices[i]))],
         SensitiveSeparator)

\* One row of buildEquivalenceClassesWithSensitive's forEach
addRowWithSensitive(classMap, row, quasiIndices, sensitiveIndices) ==
    LET key == join(rowKeyParts(row, quasiIndices), KeySeparator)
        sensitiveValue == sensitiveValueOf(row, sensitiveIndices)
    IN  IF classMapHas(classMap, key)
        THEN [classMap EXCEPT ![classMapIndex(classMap, key)].ec.size = @ + 1,
                              ![classMapIndex(classMap, key)].ec.sensitiveValues =
                                   Append(@, sensitiveValue)]
        ELSE Append(classMap,
                    [key |-> key,
                     ec |-> [id |-> <<"EC-", Len(classMap) + 1>>,
                             quasiValues |-> key,
                             size |-> 1,
                             sensitiveValues |-> <<sensitiveValue>>]])

RECURSIVE addRowsWithSensitive(_, _, _, _, _)
addRowsWithSensitive(classMap, rows, rowIndex, quasiIndices, sensitiveIndices) ==
    IF rowIndex >= Len(rows)
    THEN classMap
    ELSE addRowsWithSensitive(
             addRowWithSensitive(classMap, rows[rowIndex + 1], quasiIndices,
                                 sensitiveIndices),
             rows, rowIndex + 1, quasiIndices, sensitiveIndices)

buildEquivalenceClassesWithSensitive(csv, quasiIndices, sensitiveIndices) ==
    LET classMap == addRowsWithSensitive(<<>>, csv.rows, 0, quasiIndices,
                                         sensitiveIndices)
    IN  [j \in 1..Len(classMap) |-> classMap[j].ec]

distributionHas(distribution, value) ==
    \E j \in 1..Len(distribution) : distribution[j].key = value

distributionIndex(distribution, value) ==
    CHOOSE j \in 1..Len(distribution) : distribution[j].key = value

\* distribution[value] = (distribution[value] || 0) + 1
countValue(distribution, value) ==
    IF value = ProtoKey
    THEN distribution
    ELSE IF distributionHas(distribution, value)
    THEN [distribution EXCEPT ![distributionIndex(distribution, value)].count = @ + 1]
    ELSE Append(distribution, [key |-> value, count |-> 1])

RECURSIVE distributionOf(_, _, _)
\* for (const value of ec.sensitiveValues) ...
distributionOf(sensitiveValues, distribution, i) ==
    IF i > Len(sensitiveValues)
    THEN distribution
    ELSE distributionOf(sensitiveValues,
                        countValue(distribution, sensitiveValues[i]), i + 1)

\* The largest count of a distribution, 0 when it is empty
mostFrequentOf(distribution) ==
    IF distribution = <<>>
    THEN 0
    ELSE LET counts == {distribution[j].count : j \in 1..Len(distribution)}
         IN  CHOOSE c \in counts : \A d \in counts : c >= d

\* checkRecursiveLDiversity(distribution, l, c)
checkRecursiveLDiversity(distribution, l, c) ==
    IF Len(distribution) < l
    THEN FALSE
    ELSE LET total == SumSeq([j \in 1..Len(distribution) |-> distribution[j].count])
             mostFrequent == mostFrequentOf(distribution)
         IN  mostFrequent < c * (total - mostFrequent)

\* calculateClassLDiversity(ec, lThreshold, diversityType), the entropy
\* type apart
calculateClassLDiversity(ec, lThreshold, diversityType) ==
    LET distribution == distributionOf(ec.sensitiveValues, <<>>, 1)
        distinctCount == Len(distribution)
    IN  [equivalenceClassId |-> ec.id,
         distinctCount |-> distinctCount,
         satisfiesLDiversity |->
             IF diversityType = "recursive"
             THEN checkRecursiveLDiversity(distribution, lThreshold, 2)
             ELSE distinctCount >= lThreshold,
         sensitiveValueDistribution |-> distribution]

createEmptyLDiversityResult(lThreshold, diversityType, sensitiveAttributes) ==
    [lValue |-> 0,
     satisfiesLDiversity |-> TRUE,
     lThreshold |-> lThreshold,
     diversityType |-> diversityType,
     classResults |-> <<>>,
     violatingClasses |-> <<>>,
     complianceRate |-> Fraction(100, 1),
     sensitiveAttributes |-> sensitiveAttributes]

RECURSIVE minLOf(_, _, _)
\* if (classL < minL) minL = classL, over the class results, from Infinity
minLOf(classResults, minL, j) ==
    IF j > Len(classResults)
    THEN minL
    ELSE minLOf(classResults,
                IF minL = Absent \/ classResults[j].distinctCount < OrElse(minL, 0)
                THEN Some(classResults[j].distinctCount)
                ELSE minL,
                j + 1)

\* calculateLDiversity, its classification given as the names of the
\* quasi-identifier and of the sensitive attributes
calculateLDiversity(csv, quasiIdentifiers, sensitiveAttributes, lThreshold, diversityType) ==
    IF Len(sensitiveAttributes) = 0
    THEN createEmptyLDiversityResult(lThreshold, diversityType, sensitiveAttributes)
    ELSE LET equivalenceClasses ==
                 buildEquivalenceClassesWithSensitive(
                     csv,
                     quasiIndicesOf(csv.headers, quasiIdentifiers),
                     quasiIndicesOf(csv.headers, sensitiveAttributes))
             classResults ==
                 [j \in 1..Len(equivalenceClasses) |->
                     calculateClassLDiversity(equivalenceClasses[j], lThreshold,
                                              diversityType)]
             minL == minLOf(classResults, Absent, 1)
             violating == SelectSeq(classResults,
                                    LAMBDA result : ~result.satisfiesLDiversity)
             compliantRecords ==
                 SumSeq([j \in 1..Len(classResults) |->
                            IF classResults[j].satisfiesLDiversity
                            THEN equivalenceClasses[j].size
                            ELSE 0])
             totalRecords == Len(csv.rows)
         IN  [lValue |-> OrElse(minL, 0),
              satisfiesLDiversity |-> minL = Absent \/ OrElse(minL, 0) >= lThreshold,
              lThreshold |-> lThreshold,
              diversityType |-> diversityType,
              classResults |-> classResults,
              violatingClasses |->
                  [j \in 1..Len(violating) |-> violating[j].equivalenceClassId],
              complianceRate |->
                  IF totalRecords > 0
                  THEN Fraction(compliantRecords * 100, totalRecords)
                  ELSE Fraction(0, 1),
              sensitiveAttributes |-> sensitiveAttributes]

(***************************************************************************)
(* calculateLDiversity as a state machine (SpecLD): a dataset of a         *)
(* quasi-identifier column and a sensitive column, and one call.           *)
(***************************************************************************)

MaxLDRows == 3

LDHeaders == <<"zip", "disease">>

\* Cells: two that differ only in case and surrounding blanks, a third
\* value, and the name every plain object inherits
LDCells == {<<"a">>, <<" ", "A">>, <<"b">>, ProtoKey}

LDRows == UNION {[1..n -> LDCells] : n \in 1..Len(LDHeaders)}

LDDatasets ==
    {[headers |-> LDHeaders, rows |-> rows] :
        rows \in UNION {[1..n -> LDRows] : n \in 0..MaxLDRows}}

LDQuasiLists == {<<>>, <<"zip">>}

\* The sensitive attributes: none, a column, two columns, no column
LDSensitiveLists == {<<>>, <<"disease">>, <<"disease", "zip">>, <<"ghost">>}

LThresholds == {1, 2, 3}

DiversityTypes == {"distinct", "recursive"}

InitLD ==
    /\ RegistryInit
    /\ pluginsInitialized = FALSE
    /\ parsedCSV \in LDDatasets
    /\ quasi \in LDQuasiLists
    /\ classes = <<>>
    /\ args \in {[sensitiveAttributes |-> s] : s \in LDSensitiveLists}

CalculateLDiversity ==
    \E lThreshold \in LThresholds, diversityType \in DiversityTypes :
        /\ last.op = "new"
        /\ last' = Call("calculateLDiversity", "",
                        [lThreshold |-> lThreshold, diversityType |-> diversityType],
                        calculateLDiversity(parsedCSV, quasi, args.sensitiveAttributes,
                                            lThreshold, diversityType))
        /\ UNCHANGED <<plugins, executionOrder, pluginsInitialized,
                       parsedCSV, quasi, classes, args>>

\* The classes alone, as calculateLDiversity builds them
BuildEquivalenceClassesWithSensitive ==
    /\ last.op = "new"
    /\ classes' = buildEquivalenceClassesWithSensitive(
                      parsedCSV,
                      quasiIndicesOf(parsedCSV.headers, quasi),
                      quasiIndicesOf(parsedCSV.headers, args.sensitiveAttributes))
    /\ last' = Call("buildEquivalenceClassesWithSensitive", "", Absent, TRUE)
    /\ UNCHANGED <<plugins, executionOrder, pluginsInitialized, parsedCSV, quasi, args>>

NextLD ==
    \/ CalculateLDiversity
    \/ BuildEquivalenceClassesWithSensitive

SpecLD == InitLD /\ [][NextLD]_vars

(***************************************************************************)
(* Properties of calculateLDiversity (SpecLD)                              *)
(***************************************************************************)

IsLDiversity ==
    /\ last.op = "calculateLDiversity"
    /\ Len(parsedCSV.rows) >= 1
    /\ Len(args.sensitiveAttributes) >= 1

\* The equivalence classes of the dataset: the sets of rows of one key
LDKeyOfRow(r) ==
    join(rowKeyParts(parsedCSV.rows[r], quasiIndicesOf(parsedCSV.headers, quasi)),
         KeySeparator)

LDClasses ==
    {{q \in 1..Len(parsedCSV.rows) : LDKeyOfRow(q) = LDKeyOfRow(r)} :
        r \in 1..Len(parsedCSV.rows)}

\* The distinct combined sensitive values of a set of rows
LDSensitiveValues(rows) ==
    {sensitiveValueOf(parsedCSV.rows[r],
                      quasiIndicesOf(parsedCSV.headers, args.sensitiveAttributes)) :
        r \in rows}

\* The class result of a class: that of the position of its first row's key
LDResultOf(class) ==
    LET firsts == SelectSeq([r \in 1..Len(parsedCSV.rows) |-> r],
                            LAMBDA r : \A q \in 1..(r - 1) : LDKeyOfRow(q) # LDKeyOfRow(r))
        j == CHOOSE j \in 1..Len(firsts) : firsts[j] \in class
    IN  last.value.classResults[j]

\* C15: for a dataset with at least one row and at least one sensitive
\* attribute, lValue is the least number of distinct combined sensitive
\* values over the equivalence classes, and a class whose rows share one
\* sensitive value has distinctCount 1 and does not satisfy distinct
\* l-diversity under a threshold of 2 or more.
C15_LValueIsLeastDistinctCount ==
    IsLDiversity =>
        /\ \E class \in LDClasses :
               last.value.lValue = Cardinality(LDSensitiveValues(class))
        /\ \A class \in LDClasses :
               last.value.lValue <= Cardinality(LDSensitiveValues(class))
        /\ \A class \in LDClasses :
               Cardinality(LDSensitiveValues(class)) = 1 =>
                   /\ LDResultOf(class).distinctCount = 1
                   /\ (last.arg.diversityType = "distinct" /\ last.arg.lThreshold >= 2)
                          => ~LDResultOf(class).satisfiesLDiversity

(***************************************************************************)
(* The distributions and the categorical distance of plugins/t-closeness.  *)
(* A distribution is its own properties [key, prob] in insertion order,    *)
(* prob an exact fraction count / total.  The division of the code is      *)
(* correctly rounded, so two counts in the same ratio give the same        *)
(* number, as they give equal fractions here.  The distribution is a plain *)
(* object as in l-diversity; of the names it inherits, a normalized value  *)
(* can be `__proto__`, which never becomes a property, and `constructor`:  *)
(* reading it gives a function, so the property first stored is a string   *)
(* and its probability is NaN, kept as the fraction 0 / 0.                 *)
(***************************************************************************)

\* The sensitive value "constructor"
ConstructorKey == <<"c", "o", "n", "s", "t", "r", "u", "c", "t", "o", "r">>

NaN == Fraction(0, 0)

IsNaN(f) == f.den = 0

\* distribution[value] = (distribution[value] || 0) + 1: the property is a
\* count, or for "constructor" a string
countProbabilityValue(distribution, value) ==
    IF value = ProtoKey
    THEN distribution
    ELSE IF distributionHas(distribution, value)
    THEN [distribution EXCEPT ![distributionIndex(distribution, value)].count = @ + 1]
    ELSE Append(distribution,
                [key |-> value, count |-> 1, numeric |-> value # ConstructorKey])

RECURSIVE countProbabilityValues(_, _, _)
\* for (const value of values) ...
countProbabilityValues(values, distribution, i) ==
    IF i > Len(values)
    THEN distribution
    ELSE countProbabilityValues(values,
                                countProbabilityValue(distribution, values[i]), i + 1)

\* for (const key in distribution) distribution[key] /= total
probabilitiesOf(distribution, total) ==
    [j \in 1..Len(distribution) |->
        [key |-> distribution[j].key,
         prob |-> IF distribution[j].numeric
                  THEN Fraction(distribution[j].count, total)
                  ELSE NaN]]

\* calculateGlobalDistribution(parsedCSV, sensitiveIndex)
calculateGlobalDistribution(csv, sensitiveIndex) ==
    probabilitiesOf(
        countProbabilityValues([r \in 1..Len(csv.rows) |->
                                   normalizeValue(cellOrEmpty(csv.rows[r], sensitiveIndex))],
                               <<>>, 1),
        Len(csv.rows))

\* calculateLocalDistribution(values)
calculateLocalDistribution(values) ==
    probabilitiesOf(countProbabilityValues(values, <<>>, 1), Len(values))

\* dist[key] || 0: NaN || 0 is 0, and a key that is no property of dist is
\* undefined, or for "constructor" the inherited function, NaN in a sum
probOrZero(dist, key) ==
    IF \E j \in 1..Len(dist) : dist[j].key = key
    THEN LET prob == dist[CHOOSE j \in 1..Len(dist) : dist[j].key = key].prob
         IN  IF IsNaN(prob) THEN Fraction(0, 1) ELSE prob
    ELSE IF key = ConstructorKey
    THEN NaN
    ELSE Fraction(0, 1)

\* f + g of two numbers
AddNumbers(f, g) == IF IsNaN(f) \/ IsNaN(g) THEN NaN ELSE AddFractions(f, g)

\* Math.abs(a - b) of two numbers, over the product of the denominators
absDifference(f, g) ==
    LET num == f.num * g.den - g.num * f.den
    IN  IF IsNaN(f) \/ IsNaN(g)
        THEN NaN
        ELSE Fraction(IF num < 0 THEN 0 - num ELSE num, f.den * g.den)

RECURSIVE totalVariationOf(_, _, _)
\* for (const key of allKeys) totalVariation += Math.abs(localProb - globalProb)
totalVariationOf(allKeys, localDist, globalDist) ==
    IF allKeys = <<>>
    THEN Fraction(0, 1)
    ELSE AddNumbers(absDifference(probOrZero(localDist, Head(allKeys)),
                                  probOrZero(globalDist, Head(allKeys))),
                    totalVariationOf(Tail(allKeys), localDist, globalDist))

\* new Set([...Object.keys(localDist), ...Object.keys(globalDist)])
allKeysOf(localDist, globalDist) ==
    LET keys == [j \in 1..(Len(localDist) + Len(globalDist)) |->
                    IF j <= Len(localDist)
                    THEN localDist[j].key
                    ELSE globalDist[j - Len(localDist)].key]
    IN  SelectSeq([j \in 1..Len(keys) |-> [key |-> keys[j], first |->
                      \A i \in 1..(j - 1) : keys[i] # keys[j]]],
                  LAMBDA k : k.first)

\* calculateCategoricalEMD returning the total variation itself
calculateCategoricalEMDNotHalved(localDist, globalDist) ==
    LET allKeys == allKeysOf(localDist, globalDist)
    IN  totalVariationOf([j \in 1..Len(allKeys) |-> allKeys[j].key],
                         localDist, globalDist)

\* calculateCategoricalEMD(localDist, globalDist): totalVariation / 2
calculateCategoricalEMD(localDist, globalDist) ==
    LET allKeys == allKeysOf(localDist, globalDist)
        totalVariation == totalVariationOf([j \in 1..Len(allKeys) |-> allKeys[j].key],
                                           localDist, globalDist)
    IN  Fraction(totalVariation.num, 2 * totalVariation.den)

\* buildEquivalenceClassesWithSensitive of t-closeness: one sensitive
\* column, whose normalized value is the joined value of one part
tClosenessClasses(csv, quasiIndices, sensitiveIndex) ==
    buildEquivalenceClassesWithSensitive(csv, quasiIndices, <<sensitiveIndex>>)

(***************************************************************************)
(* The categorical distance as a state machine (SpecTC): a dataset, and    *)
(* the call calculateTCloseness makes for one of its classes.              *)
(***************************************************************************)

TCSensitiveNames == {"disease", "zip", "ghost"}

InitTC ==
    /\ RegistryInit
    /\ pluginsInitialized = FALSE
    /\ parsedCSV \in LDDatasets
    /\ quasi \in LDQuasiLists
    /\ classes = <<>>
    /\ args \in {[sensitiveAttribute |-> name] : name \in TCSensitiveNames}

CalculateCategoricalEMD ==
    /\ last.op = "new"
    /\ indexOf(parsedCSV.headers, args.sensitiveAttribute) # -1
    /\ \E equivalenceClasses \in
              {tClosenessClasses(parsedCSV,
                                 quasiIndicesOf(parsedCSV.headers, quasi),
                                 indexOf(parsedCSV.headers, args.sensitiveAttribute))} :
         \E j \in 1..Len(equivalenceClasses) :
           \E dists \in
              {[localDist |-> calculateLocalDistribution(
                                  equivalenceClasses[j].sensitiveValues),
                globalDist |-> calculateGlobalDistribution(
                                   parsedCSV,
                                   indexOf(parsedCSV.headers, args.sensitiveAttribute))]} :
             last' = Call("calculateCategoricalEMD", "", dists,
                          calculateCategoricalEMD(dists.localDist, dists.globalDist))
    /\ UNCHANGED <<plugins, executionOrder, pluginsInitialized,
                   parsedCSV, quasi, classes, args>>

NextTC ==
    \/ CalculateCategoricalEMD

SpecTC == InitTC /\ [][NextTC]_vars

(***************************************************************************)
(* Properties of the categorical distance (SpecTC)                         *)
(***************************************************************************)

IsEMD == last.op = "calculateCategoricalEMD"

\* The probabilities of dist are positive and add up to 1
IsProbabilityDistribution(dist) ==
    /\ dist # <<>>
    /\ \A j \in 1..Len(dist) : dist[j].prob.num > 0 /\ dist[j].prob.den = dist[1].prob.den
    /\ SumSeq([j \in 1..Len(dist) |-> dist[j].prob.num]) = dist[1].prob.den

DistKeys(dist) == {dist[j].key : j \in 1..Len(dist)}

\* Both distributions give every value the same probability
SameDistribution(localDist, globalDist) ==
    /\ DistKeys(localDist) = DistKeys(globalDist)
    /\ \A i \in 1..Len(localDist), j \in 1..Len(globalDist) :
           localDist[i].key = globalDist[j].key =>
               localDist[i].prob.num * globalDist[j].prob.den
                   = globalDist[j].prob.num * localDist[i].prob.den

\* C16: for the local distribution of a class and the global distribution
\* of the dataset, both probability distributions, the categorical
\* distance lies in [0, 1], and it is 0 when both give every value the same
\* probability.
C16_CategoricalDistanceInUnitInterval ==
    (/\ IsEMD
     /\ IsProbabilityDistribution(last.arg.localDist)
     /\ IsProbabilityDistribution(last.arg.globalDist))
    => /\ last.value.den > 0
       /\ last.value.num >= 0
       /\ last.value.num <= last.value.den
       /\ SameDistribution(last.arg.localDist, last.arg.globalDist)
              => last.value.num = 0

\* A class, not the whole dataset, whose distribution is that of the
\* dataset: distance 0
C16_Witness ==
    /\ IsEMD
    /\ IsProbabilityDistribution(last.arg.localDist)
    /\ IsProbabilityDistribution(last.arg.globalDist)
    /\ SameDistribution(last.arg.localDist, last.arg.globalDist)
    /\ last.arg.localDist[1].prob.den < last.arg.globalDist[1].prob.den
    /\ last.value.num = 0

(***************************************************************************)
(* detectPrivacyTechniques (the technique-detection plugin).  Each of the  *)
(* seven detection methods goes over classification.attributes and pushes *)
(* one evidence entry per check that the column of the attribute passes.   *)
(* What the columns hold is kept as the findings: the checks passed, each  *)
(* [technique, check, attribute, confidence].  Confidences are in          *)
(* hundredths.                                                             *)
(***************************************************************************)

\* The detection methods in the order detectPrivacyTechniques runs them,
\* with the checks of each in the order the method makes them
DetectionMethods ==
    <<[technique |-> "generalization", privacyBenefit |-> "high",
       checks |-> <<"range", "category", "low-ratio">>],
      [technique |-> "suppression", privacyBenefit |-> "medium",
       checks |-> <<"rate">>],
      [technique |-> "masking", privacyBenefit |-> "medium",
       checks |-> <<"pattern">>],
      [technique |-> "hashing", privacyBenefit |-> "high",
       checks |-> <<"pattern", "name">>],
      [technique |-> "pseudonymization", privacyBenefit |-> "high",
       checks |-> <<"pattern">>],
      [technique |-> "bucketing", privacyBenefit |-> "medium",
       checks |-> <<"pattern">>],
      [technique |-> "noise-addition", privacyBenefit |-> "medium",
       checks |-> <<"precision">>]>>

\* The confidences a check gives its evidence: a constant, or
\* Math.min(ratio * 5, 0.95) for a suppression rate above 0.01 and
\* Math.min(matchRatio, cap) for a match ratio above the method's bound,
\* of which a low and a high value are kept
checkConfidences(technique, check) ==
    CASE technique = "generalization" /\ check = "range" -> {90}
      [] technique = "generalization" /\ check = "category" -> {85}
      [] technique = "generalization" /\ check = "low-ratio" -> {60}
      [] technique = "suppression" -> {10, 95}
      [] technique = "masking" -> {90}
      [] technique = "hashing" /\ check = "pattern" -> {95}
      [] technique = "hashing" /\ check = "name" -> {70}
      [] technique = "pseudonymization" -> {90}
      [] technique = "bucketing" -> {60, 85}
      [] technique = "noise-addition" -> {50}

\* The evidence a method pushes: for each attribute in turn, for each of
\* its checks in turn, the entry of the check when the column passes it
evidenceOf(method, attributes, findings) ==
    LET n == Len(method.checks)
        slots == [k \in 1..(Len(attributes) * n) |->
                     [attribute |-> attributes[((k - 1) \div n) + 1],
                      check |-> method.checks[((k - 1) % n) + 1]]]
        found(slot) == {f \in findings : /\ f.technique = method.technique
                                         /\ f.check = slot.check
                                         /\ f.attribute = slot.attribute}
        passed == SelectSeq(slots, LAMBDA slot : found(slot) # {})
    IN  [j \in 1..Len(passed) |->
            [attribute |-> passed[j].attribute,
             confidence |-> (CHOOSE f \in found(passed[j]) : TRUE).confidence]]

\* [...new Set(evidence.map(e => e.attribute))]
affectedAttributesOf(evidence) ==
    LET firsts == SelectSeq([j \in 1..Len(evidence) |->
                                [attribute |-> evidence[j].attribute,
                                 first |-> \A i \in 1..(j - 1) :
                                     evidence[i].attribute # evidence[j].attribute]],
                            LAMBDA e : e.first)
    IN  [j \in 1..Len(firsts) |-> firsts[j].attribute]

\* Math.max(...evidence.map(e => e.confidence))
maxConfidenceOf(evidence) ==
    CHOOSE c \in {evidence[j].confidence : j \in 1..Len(evidence)} :
        \A j \in 1..Len(evidence) : c >= evidence[j].confidence

\* What a detection method returns: one technique when it has evidence
detectMethod(method, attributes, findings) ==
    LET evidence == evidenceOf(method, attributes, findings)
    IN  IF Len(evidence) > 0
        THEN <<[technique |-> method.technique,
                affectedAttributes |-> affectedAttributesOf(evidence),
                confidence |-> maxConfidenceOf(evidence),
                evidence |-> evidence,
                privacyBenefit |-> method.privacyBenefit]>>
        ELSE <<>>

benefitPoints(privacyBenefit) ==
    CASE privacyBenefit = "high" -> 20
      [] privacyBenefit = "medium" -> 12
      [] privacyBenefit = "low" -> 5

\* calculateTechniqueScore(techniques, coverage), coverage a fraction
calculateTechniqueScore(techniques, coverage) ==
    IF Len(techniques) = 0
    THEN 20
    ELSE LET techniquePoints ==
                 Min(SumSeq([j \in 1..Len(techniques) |->
                                benefitPoints(techniques[j].privacyBenefit)
                                    * techniques[j].confidence]),
                     6000)
             total == Fraction(techniquePoints * coverage.den + 4000 * coverage.num,
                               100 * coverage.den)
         IN  IF total.num >= 100 * total.den THEN 100 ELSE MathRound(total)

RECURSIVE detectEach(_, _, _, _, _)
\* The loop over detectionMethods: a technique is kept when its confidence
\* is above minConfidence
detectEach(attributes, findings, minConfidence, detected, m) ==
    IF m > Len(DetectionMethods)
    THEN detected
    ELSE detectEach(attributes, findings, minConfidence,
                    detected \o SelectSeq(detectMethod(DetectionMethods[m],
                                                       attributes, findings),
                                          LAMBDA technique :
                                              technique.confidence > minConfidence),
                    m + 1)

\* detectPrivacyTechniques(parsedCSV, classification, minConfidence), the
\* recommendations apart
detectPrivacyTechniques(attributes, findings, minConfidence) ==
    LET detectedTechniques == detectEach(attributes, findings, minConfidence, <<>>, 1)
        protectedAttributes ==
            UNION {Range(detectedTechniques[j].affectedAttributes) :
                       j \in 1..Len(detectedTechniques)}
        techniqueCoverage ==
            IF Len(attributes) > 0
            THEN Fraction(Cardinality(protectedAttributes), Len(attributes))
            ELSE Fraction(0, 1)
    IN  [detectedTechniques |-> detectedTechniques,
         techniqueCoverage |-> techniqueCoverage,
         protectedAttributeCount |-> Cardinality(protectedAttributes),
         totalAttributes |-> Len(attributes),
         techniqueScore |-> calculateTechniqueScore(detectedTechniques,
                                                    techniqueCoverage)]

(***************************************************************************)
(* detectPrivacyTechniques as a state machine (SpecTD): a classification   *)
(* of three attributes, a dataset in which no check passes, and calls of   *)
(* detectPrivacyTechniques, between them the dataset changing so that one  *)
(* more check passes.                                                      *)
(***************************************************************************)

\* The most checks that pass in the dataset
MaxFindings == 2

TDAttributes == <<"a", "b", "c">>

\* 0.3, the default, and 0.7
MinConfidences == {30, 70}

\* A finding is one a check can give, and no check passes twice
FindingFits(finding, findings) ==
    /\ \E m \in 1..Len(DetectionMethods) :
           /\ DetectionMethods[m].technique = finding.technique
           /\ finding.check \in Range(DetectionMethods[m].checks)
    /\ finding.confidence \in checkConfidences(finding.technique, finding.check)
    /\ \A f \in findings :
           ~(/\ f.technique = finding.technique
             /\ f.check = finding.check
             /\ f.attribute = finding.attribute)

InitTD ==
    /\ RegistryInit
    /\ pluginsInitialized = FALSE
    /\ parsedCSV = NoCSV
    /\ quasi = <<>>
    /\ classes = <<>>
    /\ args \in {[attributes |-> TDAttributes, minConfidence |-> m, findings |-> {}] :
                     m \in MinConfidences}

DetectPrivacyTechniques ==
    /\ last.op = "new"
    /\ last' = Call("detectPrivacyTechniques", "", Absent,
                    detectPrivacyTechniques(args.attributes, args.findings,
                                            args.minConfidence))
    /\ UNCHANGED <<plugins, executionOrder, pluginsInitialized,
                   parsedCSV, quasi, classes, args>>

\* One more check passes in the dataset, and detectPrivacyTechniques is
\* called again
DetectWithMoreEvidence ==
    /\ last.op = "detectPrivacyTechniques"
    /\ Cardinality(args.findings) < MaxFindings
    /\ \E m \in 1..Len(DetectionMethods) :
         \E k \in 1..Len(DetectionMethods[m].checks), attribute \in Range(TDAttributes) :
           \E confidence \in checkConfidences(DetectionMethods[m].technique,
                                              DetectionMethods[m].checks[k]) :
             \E finding \in {[technique |-> DetectionMethods[m].technique,
                              check |-> DetectionMethods[m].checks[k],
                              attribute |-> attribute,
                              confidence |-> confidence]} :
               /\ FindingFits(finding, args.findings)
               /\ args' = [args EXCEPT !.findings = @ \cup {finding}]
               /\ last' = Call("detectPrivacyTechniques", "", Some(finding),
                               detectPrivacyTechniques(args.attributes,
                                                       args.findings \cup {finding},
                                                       args.minConfidence))
    /\ UNCHANGED <<plugins, executionOrder, pluginsInitialized, parsedCSV, quasi, classes>>

NextTD ==
    \/ DetectPrivacyTechniques
    \/ DetectWithMoreEvidence

SpecTD == InitTD /\ [][NextTD]_vars

(***************************************************************************)
(* Properties of detectPrivacyTechniques (SpecTD)                          *)
(***************************************************************************)

IsDetect == last.op = "detectPrivacyTechniques"

\* The attributes some detected technique names as affected
ReportedAffected ==
    UNION {Range(last.value.detectedTechniques[j].affectedAttributes) :
               j \in 1..Len(last.value.detectedTechniques)}

\* The attributes with evidence at or above minConfidence
BackedAttributes ==
    {f.attribute : f \in {g \in args.findings : g.confidence >= args.minConfidence}}

\* C17: no evidence entry of a detected technique has a confidence below
\* minConfidence, and an attribute whose evidence is all below minConfidence
\* is neither an affected attribute nor counted as protected.
C17_NoEvidenceBelowMinConfidence ==
    IsDetect =>
        /\ \A j \in 1..Len(last.value.detectedTechniques) :
               \A e \in Range(last.value.detectedTechniques[j].evidence) :
                   e.confidence >= args.minConfidence
        /\ ReportedAffected \subseteq BackedAttributes
        /\ last.value.protectedAttributeCount <= Cardinality(BackedAttributes)

\* The evidence added by the last call qualifies: its confidence is above
\* minConfidence
AddedQualifyingEvidence ==
    /\ last.op = "detectPrivacyTechniques"
    /\ last'.op = "detectPrivacyTechniques"
    /\ last'.arg # Absent
    /\ \A finding \in last'.arg : finding.confidence > args.minConfidence

\* C18: with the attributes fixed, one more qualifying evidence entry, for
\* a technique detected before or not, never lowers techniqueScore.
C18_ScoreMonotoneInEvidence ==
    [][AddedQualifyingEvidence =>
           last'.value.techniqueScore >= last.value.techniqueScore]_vars

(***************************************************************************)
(* calculate of the k-anonymity and of the t-closeness plugin: the result, *)
(* its score and its status.  A number is an exact fraction or NaN.        *)
(* Thresholds are integers (kThreshold) and hundredths (tThreshold); the   *)
(* sensitive attribute is categorical.                                     *)
(***************************************************************************)

\* f <= g of two numbers: false when one is NaN
LessEq(f, g) == ~IsNaN(f) /\ ~IsNaN(g) /\ f.num * g.den <= g.num * f.den

\* Math.round(Math.min(total, 100)) of a total that is not negative
roundToHundred(total) ==
    IF IsNaN(total)
    THEN NaN
    ELSE IF total.num >= 100 * total.den
    THEN Fraction(100, 1)
    ELSE Fraction(MathRound(total), 1)

\* getStatus(score), the same in every built-in plugin
getStatus(score) ==
    IF LessEq(Fraction(70, 1), score)
    THEN "pass"
    ELSE IF LessEq(Fraction(40, 1), score)
    THEN "warning"
    ELSE "fail"

\* calculateScore of k-anonymity
kAnonymityCalculateScore(result) ==
    LET kScore == Fraction(50 * Min(result.kValue, result.kThreshold), result.kThreshold)
        complianceScore == Fraction(30 * result.complianceRate.num,
                                    100 * result.complianceRate.den)
        avgClassPenalty ==
            IF result.averageClassSize.num < result.kThreshold * result.averageClassSize.den
            THEN Fraction(20 * result.averageClassSize.num,
                          result.kThreshold * result.averageClassSize.den)
            ELSE Fraction(20, 1)
    IN  roundToHundred(AddFractions(kScore, AddFractions(complianceScore, avgClassPenalty)))

\* kAnonymityPlugin.calculate(input): score and status of the output
kAnonymityCalculate(csv, quasiIdentifiers, kThreshold) ==
    LET result == calculateKAnonymity(csv, quasiIdentifiers, kThreshold)
        score == kAnonymityCalculateScore(result)
    IN  [result |-> result, score |-> score, status |-> getStatus(score)]

createEmptyTClosenessResult(tThreshold, sensitiveAttribute) ==
    [maxDistance |-> Fraction(0, 1),
     satisfiesTCloseness |-> TRUE,
     tThreshold |-> tThreshold,
     classResults |-> <<>>,
     violatingClasses |-> <<>>,
     complianceRate |-> Fraction(100, 1),
     sensitiveAttribute |-> sensitiveAttribute,
     averageDistance |-> Fraction(0, 1)]

NoDistances ==
    [classResults |-> <<>>, violatingClasses |-> <<>>, maxDistance |-> Fraction(0, 1),
     totalDistance |-> Fraction(0, 1), compliantRecords |-> 0]

RECURSIVE distancesOf(_, _, _, _, _)
\* for (const ec of equivalenceClasses) ..., tThreshold a fraction
distancesOf(equivalenceClasses, globalDistribution, tThreshold, acc, j) ==
    IF j > Len(equivalenceClasses)
    THEN acc
    ELSE LET ec == equivalenceClasses[j]
             distance == calculateCategoricalEMD(
                             calculateLocalDistribution(ec.sensitiveValues),
                             globalDistribution)
             satisfiesTCloseness == LessEq(distance, tThreshold)
         IN  distancesOf(equivalenceClasses, globalDistribution, tThreshold,
                 [classResults |->
                      Append(acc.classResults,
                             [equivalenceClassId |-> ec.id,
                              distance |-> distance,
                              satisfiesTCloseness |-> satisfiesTCloseness]),
                  violatingClasses |->
                      IF satisfiesTCloseness
                      THEN acc.violatingClasses
                      ELSE Append(acc.violatingClasses, ec.id),
                  maxDistance |->
                      IF ~IsNaN(distance) /\ ~LessEq(distance, acc.maxDistance)
                      THEN distance
                      ELSE acc.maxDistance,
                  totalDistance |-> AddNumbers(acc.totalDistance, distance),
                  compliantRecords |->
                      IF satisfiesTCloseness
                      THEN acc.compliantRecords + ec.size
                      ELSE acc.compliantRecords],
                 j + 1)

\* calculateTCloseness(parsedCSV, classification, tThreshold); of the
\* classification it reads the names of the quasi-identifier and of the
\* sensitive attributes, the first of these categorical
calculateTCloseness(csv, quasiIdentifiers, sensitiveAttributes, tThreshold) ==
    IF Len(sensitiveAttributes) = 0
    THEN createEmptyTClosenessResult(tThreshold, "")
    ELSE IF indexOf(csv.headers, sensitiveAttributes[1]) = -1
    THEN createEmptyTClosenessResult(tThreshold, sensitiveAttributes[1])
    ELSE LET sensitiveIndex == indexOf(csv.headers, sensitiveAttributes[1])
             equivalenceClasses ==
                 tClosenessClasses(csv, quasiIndicesOf(csv.headers, quasiIdentifiers),
                                   sensitiveIndex)
             done == distancesOf(equivalenceClasses,
                                 calculateGlobalDistribution(csv, sensitiveIndex),
                                 Fraction(tThreshold, 100), NoDistances, 1)
             totalRecords == Len(csv.rows)
         IN  [maxDistance |-> done.maxDistance,
              satisfiesTCloseness |-> LessEq(done.maxDistance, Fraction(tThreshold, 100)),
              tThreshold |-> tThreshold,
              classResults |-> done.classResults,
              violatingClasses |-> done.violatingClasses,
              complianceRate |->
                  IF totalRecords > 0
                  THEN Fraction(done.compliantRecords * 100, totalRecords)
                  ELSE Fraction(0, 1),
              sensitiveAttribute |-> sensitiveAttributes[1],
              averageDistance |->
                  IF Len(done.classResults) = 0
                  THEN Fraction(0, 1)
                  ELSE IF IsNaN(done.totalDistance)
                  THEN NaN
                  ELSE Fraction(done.totalDistance.num,
                                done.totalDistance.den * Len(done.classResults))]

\* calculateScore of t-closeness
tClosenessCalculateScore(result) ==
    IF result.sensitiveAttribute = ""
    THEN Fraction(50, 1)
    ELSE LET max == result.maxDistance
             distanceScore ==
                 IF LessEq(max, Fraction(result.tThreshold, 100))
                 THEN Fraction(50, 1)
                 ELSE Fraction(Max(0, 100 * max.den * result.tThreshold - 5000 * max.num),
                               max.den * result.tThreshold)
             complianceScore == Fraction(30 * result.complianceRate.num,
                                         100 * result.complianceRate.den)
             avg == result.averageDistance
             avgDistanceScore ==
                 IF IsNaN(avg)
                 THEN NaN
                 ELSE Fraction(Max(0, 20 * (avg.den - avg.num)), avg.den)
         IN  roundToHundred(AddNumbers(AddFractions(distanceScore, complianceScore),
                                       avgDistanceScore))

\* tClosenessPlugin.calculate(input): score and status of the output
tClosenessCalculate(csv, quasiIdentifiers, sensitiveAttributes, tThreshold) ==
    LET result == calculateTCloseness(csv, quasiIdentifiers, sensitiveAttributes,
                                      tThreshold)
        score == tClosenessCalculateScore(result)
    IN  [result |-> result, score |-> score, status |-> getStatus(score)]

(***************************************************************************)
(* calculate as a state machine (SpecCalc): a dataset of a quasi-          *)
(* identifier column and a sensitive column, and one call of calculate of  *)
(* a plugin under a threshold its validateConfig accepts.                  *)
(***************************************************************************)

MaxCalcRows == 3

CalcHeaders == <<"zip", "job">>

CalcCells == {<<"a">>, <<"b">>, ConstructorKey}

CalcDatasets ==
    {[headers |-> CalcHeaders, rows |-> rows] :
        rows \in UNION {[1..n -> [1..Len(CalcHeaders) -> CalcCells]] :
                            n \in 0..MaxCalcRows}}

CalcQuasiLists == {<<>>, <<"zip">>}

CalcSensitiveLists == {<<>>, <<"job">>, <<"ghost">>}

\* Thresholds: kAnonymityValidateConfig and tClosenessValidateConfig accept them
CalcKThresholds ==
    {k \in {1, 2, 5} : kAnonymityValidateConfig([kThreshold |-> k]).ok}

CalcTThresholds ==
    {t \in {15, 50, 100} : tClosenessValidateConfig([tThreshold |-> t]).ok}

InitCalc ==
    /\ RegistryInit
    /\ pluginsInitialized = FALSE
    /\ parsedCSV \in CalcDatasets
    /\ quasi \in CalcQuasiLists
    /\ classes = <<>>
    /\ args \in {[sensitiveAttributes |-> s] : s \in CalcSensitiveLists}

KAnonymityCalculate ==
    \E kThreshold \in CalcKThresholds :
        /\ last.op = "new"
        /\ last' = Call("calculate", "k-anonymity", kThreshold,
                        kAnonymityCalculate(parsedCSV, quasi, kThreshold))
        /\ UNCHANGED <<plugins, executionOrder, pluginsInitialized,
                       parsedCSV, quasi, classes, args>>

TClosenessCalculate ==
    \E tThreshold \in CalcTThresholds :
        /\ last.op = "new"
        /\ last' = Call("calculate", "t-closeness", tThreshold,
                        tClosenessCalculate(parsedCSV, quasi, args.sensitiveAttributes,
                                            tThreshold))
        /\ UNCHANGED <<plugins, executionOrder, pluginsInitialized,
                       parsedCSV, quasi, classes, args>>

NextCalc ==
    \/ KAnonymityCalculate
    \/ TClosenessCalculate

SpecCalc == InitCalc /\ [][NextCalc]_vars

(***************************************************************************)
(* Properties of calculate (SpecCalc)                                      *)
(***************************************************************************)

IsCalculate == last.op = "calculate"

\* The score is an integer, and which
IsIntegerScore(score, n) == score.den = 1 /\ score.num = n

\* C19: calculate of a built-in plugin (here k-anonymity and t-closeness),
\* under a threshold its validateConfig accepts, returns a score that is an
\* integer in 0..100 and the status pass exactly when score >= 70, warning
\* exactly when 40 <= score < 70, and fail otherwise.
C19_ScoreIsIntegerWithStatus ==
    IsCalculate =>
        \E n \in 0..100 :
            /\ IsIntegerScore(last.value.score, n)
            /\ last.value.status = "pass" <=> n >= 70
            /\ last.value.status = "warning" <=> (40 <= n /\ n < 70)
            /\ last.value.status = "fail" <=> n < 40

(***************************************************************************)
(* Properties of the denominator of executeAll (Spec)                      *)
(***************************************************************************)

\* The weights of the enabled plugins that gave no result in the last call:
\* canCalculate returned false or calculate threw
FailedWeight ==
    SumSeq([i \in 1..Len(plugins) |->
               IF /\ plugins[i].enabled
                  /\ \/ ~last.beh[plugins[i].plugin.id].can
                     \/ last.beh[plugins[i].plugin.id].throws
               THEN plugins[i].weight
               ELSE 0])

C21_OrderIsPermutationOfRegistered ==
    /\ Range(executionOrder) = RegisteredIds
    /\ Len(executionOrder) = Cardinality(RegisteredIds)

\* C21's case: a plugin that depends on itself and another that depends on
\* an id that is not registered, after updateExecutionOrder ran for them
C21_Witness ==
    /\ last.op = "register"
    /\ Len(executionOrder) = 2
    /\ \E id \in RegisteredIds : id \in RegisteredDeps(id)
    /\ \E id \in RegisteredIds :
           Range(MapGet(plugins, id).plugin.dependencies) \ RegisteredIds # {}

(***************************************************************************)
(* Properties of the class key (SpecEC)                                    *)
(***************************************************************************)

\* The tuple of normalized quasi-identifier values of a row, from 0
TupleOfRow(rowIndex) == rowKeyParts(parsedCSV.rows[rowIndex + 1], QuasiIndices)

\* Both rows are in the rowIndices of one class
InSameClass(r, q) ==
    \E j \in 1..Len(classes) :
        /\ r \in Range(classes[j].rowIndices)
        /\ q \in Range(classes[j].rowIndices)

\* C22: two rows are in the same equivalence class exactly when their
\* tuples of normalized quasi-identifier values are equal component by
\* component, whatever characters the cells hold.
C22_SameClassIffSameTuple ==
    IsBuilt =>
        \A r, q \in 0..(Len(parsedCSV.rows) - 1) :
            InSameClass(r, q) <=> TupleOfRow(r) = TupleOfRow(q)

(***************************************************************************)
(* calculateReidentificationRisk, its first factor (SpecRisk): a           *)
(* classification of three attributes, a dataset in which some checks of   *)
(* hashing and pseudonymization pass, and one call.                        *)
(***************************************************************************)

AttributeTypes == {"direct-identifier", "quasi-identifier"}

ProtectingTechniques == {"pseudonymization", "hashing"}

\* classification.summary.directIdentifiers, as classifyAttributes counts it
directIdentifiersOf(classification) ==
    Cardinality({j \in 1..Len(classification) :
                     classification[j].type = "direct-identifier"})

\* Factor 1 of calculateReidentificationRisk(parsedCSV, classification,
\* kAnonymity, techniqueDetection): the entries of the flattened
\* affectedAttributes of the two techniques that name a direct identifier
\* are counted and subtracted
calculateReidentificationRisk(classification, techniqueDetection) ==
    LET isDirect(a) == \E j \in 1..Len(classification) :
                           /\ classification[j].name = a
                           /\ classification[j].type = "direct-identifier"
        detected == techniqueDetection.detectedTechniques
        covered == SumSeq([j \in 1..Len(detected) |->
                              IF detected[j].technique \in ProtectingTechniques
                              THEN Len(SelectSeq(detected[j].affectedAttributes, isDirect))
                              ELSE 0])
        unprotectedDI == directIdentifiersOf(classification) - covered
    IN  [unprotectedDI |-> unprotectedDI,
         riskFactors |-> IF unprotectedDI > 0
                         THEN <<[factor |-> "Unprotected Direct Identifiers",
                                 impact |-> Min(unprotectedDI * 25, 50)]>>
                         ELSE <<>>]

\* The checks of the two techniques that may pass in the dataset
RiskFindings ==
    {[technique |-> "hashing", check |-> "pattern", attribute |-> a, confidence |-> 95] :
         a \in Range(TDAttributes)}
    \cup {[technique |-> "hashing", check |-> "name", attribute |-> a, confidence |-> 70] :
              a \in Range(TDAttributes)}
    \cup {[technique |-> "pseudonymization", check |-> "pattern", attribute |-> a,
           confidence |-> 90] : a \in Range(TDAttributes)}

InitRisk ==
    /\ RegistryInit
    /\ pluginsInitialized = FALSE
    /\ parsedCSV = NoCSV
    /\ quasi = <<>>
    /\ classes = <<>>
    /\ args \in {[classification |-> [j \in 1..Len(TDAttributes) |->
                                         [name |-> TDAttributes[j], type |-> types[j]]],
                  findings |-> findings] :
                     types \in [1..Len(TDAttributes) -> AttributeTypes],
                     findings \in {F \in SUBSET RiskFindings : Cardinality(F) <= MaxFindings}}

CalculateReidentificationRisk ==
    /\ last.op = "new"
    /\ last' = Call("calculateReidentificationRisk", "", Absent,
                    calculateReidentificationRisk(
                        args.classification,
                        detectPrivacyTechniques(TDAttributes, args.findings, 30)))
    /\ UNCHANGED <<plugins, executionOrder, pluginsInitialized,
                   parsedCSV, quasi, classes, args>>

NextRisk == CalculateReidentificationRisk

SpecRisk == InitRisk /\ [][NextRisk]_vars

(***************************************************************************)
(* Properties of the direct-identifier factor (SpecRisk)                   *)
(***************************************************************************)

IsRisk == last.op = "calculateReidentificationRisk"

\* The direct identifiers that no hashing or pseudonymization finding names
UnprotectedDirectIdentifiers ==
    {j \in 1..Len(args.classification) :
         /\ args.classification[j].type = "direct-identifier"
         /\ \A f \in args.findings : f.attribute # args.classification[j].name}

\* C23: the unprotected-direct-identifier count is the number of direct
\* identifiers that appear in the affectedAttributes of no detected hashing
\* or pseudonymization technique, and the factor is present, with impact
\* min(count * 25, 50), exactly when that count is above 0, also when one
\* attribute is covered by both techniques.
C23_UnprotectedDirectIdentifierFactor ==
    IsRisk =>
        LET count == Cardinality(UnprotectedDirectIdentifiers)
        IN  /\ last.value.unprotectedDI = count
            /\ Len(last.value.riskFactors) > 0 <=> count > 0
            /\ Len(last.value.riskFactors) > 0
                   => last.value.riskFactors[1].impact = Min(count * 25, 50)

(***************************************************************************)
(* generateRecommendations (SpecRec): the conditions under which each      *)
(* recommendation is pushed are drawn, and the list is generated once.     *)
(***************************************************************************)

\* What keeps the order of the list that was pushed
keepPushedOrder(recommendations) == recommendations

RECURSIVE sortRecommendations(_)
\* recommendations.sort((a, b) => ...) with priorityOrder and, for equal
\* priorities, b.expectedImpact - a.expectedImpact; the sort is stable: an
\* entry goes behind the entries that do not compare above it
sortRecommendations(recommendations) ==
    IF recommendations = <<>>
    THEN <<>>
    ELSE LET priorityOrder(p) == CASE p = "critical" -> 0
                                   [] p = "high" -> 1
                                   [] p = "medium" -> 2
                                   [] p = "low" -> 3
             compare(a, b) ==
                 LET priorityDiff == priorityOrder(a.priority) - priorityOrder(b.priority)
                 IN  IF priorityDiff # 0
                     THEN priorityDiff
                     ELSE b.expectedImpact - a.expectedImpact
             n == Len(recommendations)
             rec == recommendations[n]
             sorted == sortRecommendations(SubSeq(recommendations, 1, n - 1))
             before == SelectSeq(sorted, LAMBDA e : compare(e, rec) <= 0)
             after == SelectSeq(sorted, LAMBDA e : compare(e, rec) > 0)
         IN  before \o <<rec>> \o after

\* generateRecommendations(classification, detectedTechniques) of technique
\* detection: the priorities pushed when some direct identifier, some
\* quasi-identifier, some sensitive attribute is unprotected
techniqueRecommendations(unprotectedDI, unprotectedQI, unprotectedSA) ==
    (IF unprotectedDI
     THEN <<[technique |-> "pseudonymization", priority |-> "critical"],
            [technique |-> "hashing", priority |-> "high"]>>
     ELSE <<>>)
    \o (IF unprotectedQI
        THEN <<[technique |-> "generalization", priority |-> "high"]>>
        ELSE <<>>)
    \o (IF unprotectedSA
        THEN <<[technique |-> "bucketing", priority |-> "medium"]>>
        ELSE <<>>)

\* generateRecommendations(kAnonymity, lDiversity, tCloseness,
\* techniqueDetection, classification): priority, category and
\* expectedImpact of each entry; the ids follow the order of the pushes
generateRecommendations(unprotectedDI, kViolated, lViolated, tViolated, techniqueRecs) ==
    LET general == IF unprotectedDI
                   THEN <<[priority |-> "critical", category |-> "general",
                           expectedImpact |-> 25]>>
                   ELSE <<>>
        k == IF kViolated
             THEN <<[priority |-> "high", category |-> "k-anonymity",
                     expectedImpact |-> 20]>>
             ELSE <<>>
        l == IF lViolated
             THEN <<[priority |-> "high", category |-> "l-diversity",
                     expectedImpact |-> 15]>>
             ELSE <<>>
        t == IF tViolated
             THEN <<[priority |-> "medium", category |-> "t-closeness",
                     expectedImpact |-> 10]>>
             ELSE <<>>
        technique == [j \in 1..Len(techniqueRecs) |->
                         [priority |-> IF techniqueRecs[j].priority = "critical"
                                       THEN "high"
                                       ELSE techniqueRecs[j].priority,
                          category |-> "technique",
                          expectedImpact |->
                              IF techniqueRecs[j].priority = "critical" THEN 15
                              ELSE IF techniqueRecs[j].priority = "high" THEN 10
                              ELSE 5]]
        pushed == general \o k \o l \o t \o technique
        numbered == [j \in 1..Len(pushed) |->
                        [id |-> j,
                         priority |-> pushed[j].priority,
                         category |-> pushed[j].category,
                         expectedImpact |-> pushed[j].expectedImpact]]
    IN  sortRecommendations(numbered)

InitRec ==
    /\ RegistryInit
    /\ pluginsInitialized = FALSE
    /\ parsedCSV = NoCSV
    /\ quasi = <<>>
    /\ classes = <<>>
    /\ args \in [unprotectedDI : BOOLEAN, kViolated : BOOLEAN, lViolated : BOOLEAN,
                 tViolated : BOOLEAN, techniqueDI : BOOLEAN,
                 unprotectedQI : BOOLEAN, unprotectedSA : BOOLEAN]

GenerateRecommendations ==
    /\ last.op = "new"
    /\ last' = Call("generateRecommendations", "", Absent,
                    generateRecommendations(
                        args.unprotectedDI, args.kViolated, args.lViolated,
                        args.tViolated,
                        techniqueRecommendations(args.techniqueDI, args.unprotectedQI,
                                                 args.unprotectedSA)))
    /\ UNCHANGED <<plugins, executionOrder, pluginsInitialized,
                   parsedCSV, quasi, classes, args>>

NextRec == GenerateRecommendations

SpecRec == InitRec /\ [][NextRec]_vars

(***************************************************************************)
(* Properties of the recommendations (SpecRec)                             *)
(***************************************************************************)

IsRecommendations == last.op = "generateRecommendations"

\* critical before high before medium before low
PriorityRank(priority) ==
    CASE priority = "critical" -> 4
      [] priority = "high" -> 3
      [] priority = "medium" -> 2
      [] priority = "low" -> 1

\* C24: the recommendations list is sorted: a critical entry before a high
\* one, high before medium, medium before low, and among entries of equal
\* priority the one with the larger expectedImpact first.
C24_RecommendationsSorted ==
    IsRecommendations =>
        \A i, j \in 1..Len(last.value) :
            i < j =>
                \/ PriorityRank(last.value[i].priority) > PriorityRank(last.value[j].priority)
                \/ /\ last.value[i].priority = last.value[j].priority
                   /\ last.value[i].expectedImpact >= last.value[j].expectedImpact

\* A list in which the sort moved an entry: the t-closeness recommendation
\* was pushed before the technique recommendations and stands behind a
\* high one of them
C24_Witness ==
    /\ IsRecommendations
    /\ \E i, j \in 1..Len(last.value) :
           /\ i < j
           /\ last.value[i].id > last.value[j].id
           /\ last.value[i].category = "technique"
           /\ last.value[j].category = "t-closeness"

(***************************************************************************)
(* Properties of the accounting of executeAll (Spec)                       *)
(***************************************************************************)

\* C25: executeAll accounts for every registered plugin exactly once: each
\* registered id is in results or in skippedPlugins, never in both and
\* never twice, no other id is in either, and pluginsExecuted plus the
\* length of skippedPlugins is the number of registered plugins.
C25_EveryPluginAccountedOnce ==
    IsExecuteAll =>
        /\ ResultIds \cup SkippedIds = RegisteredIds
        /\ ResultIds \cap SkippedIds = {}
        /\ Len(last.exec.results) = Cardinality(ResultIds)
        /\ Len(last.exec.skippedPlugins) = Cardinality(SkippedIds)
        /\ last.exec.pluginsExecuted + Len(last.exec.skippedPlugins)
               = Cardinality(RegisteredIds)

\* A call over two registered plugins, one disabled, the other giving a
\* result
C25_Witness ==
    /\ IsExecuteAll
    /\ Cardinality(RegisteredIds) = 2
    /\ \E i \in 1..Len(plugins) : ~plugins[i].enabled
    /\ Len(last.exec.results) = 1
    /\ Len(last.exec.skippedPlugins) = 1

(***************************************************************************)
(* Properties of the initialization of the registry (SpecRun)              *)
(***************************************************************************)

\* C26: whenever calculatePrivacyIndexWithPlugins has run, the ids of the
\* four built-in plugins are registered in the registry it executed
\* against, whatever operations came before, resetPluginRegistry() and
\* unregisterPlugin() of a built-in after an earlier run included.
C26_BuiltInsRegisteredAtEveryRun ==
    IsPluginRun => Range(BuiltInIds) \subseteq RegisteredIds

(***************************************************************************)
(* Properties of the dataset flag of calculateLDiversity (SpecLD)          *)
(***************************************************************************)

\* C27: for each diversity type, satisfiesLDiversity of the result of
\* calculateLDiversity is true exactly when violatingClasses is empty.
C27_SatisfiedIffNoViolatingClass ==
    IsLDiversity =>
        (last.value.satisfiesLDiversity <=> last.value.violatingClasses = <<>>)

(***************************************************************************)
(* Properties of the two paths compared (SpecRun)                          *)
(***************************************************************************)

\* getRiskLevel(score)
getRiskLevel(score) ==
    IF score >= 90 THEN "minimal"
    ELSE IF score >= 70 THEN "low"
    ELSE IF score >= 50 THEN "medium"
    ELSE IF score >= 30 THEN "high"
    ELSE "critical"

\* getGrade(score)
getGrade(score) ==
    IF score >= 90 THEN "A"
    ELSE IF score >= 80 THEN "B"
    ELSE IF score >= 70 THEN "C"
    ELSE IF score >= 60 THEN "D"
    ELSE "F"

\* The last run went through the plugin path under the default
\* configuration, with exactly the four built-ins registered, all enabled,
\* and each gave a result
AllBuiltInsRan ==
    /\ IsPluginRun
    /\ last.run.input.metricWeights = Absent
    /\ last.run.outcome = "report"
    /\ RegisteredIds = Range(BuiltInIds)
    /\ \A i \in 1..Len(plugins) :
           /\ plugins[i].enabled
           /\ plugins[i].plugin.kind = plugins[i].plugin.id
    /\ {last.run.pluginResults.results[i].pluginId :
            i \in 1..Len(last.run.pluginResults.results)} = Range(BuiltInIds)

\* The metric of that name in a report
MetricOf(report, name) ==
    CHOOSE m \in Range(report.metricScores) : m.name = name

\* The report calculatePrivacyIndex returns for the input of the last run,
\* the plugins giving the scores they gave in it
LegacyReportOfLastRun ==
    LET riskScore == 100 - MetricOf(LastReport, "Re-identification Risk").score
        scores == [id \in Range(BuiltInIds) |-> last.run.beh[id].score]
        legacy == calculatePrivacyIndex(last.run.input, scores, riskScore)
    IN  OrElse(legacy.report, [overallScore |-> -1, metricScores |-> <<>>])

\* C28: under the default configuration, with the four built-ins enabled
\* and applicable, the plugin path gives each metric the weight the legacy
\* path gives it for the same input, and the same overallScore, grade and
\* riskLevel.
C28_PathsAgree ==
    AllBuiltInsRan =>
        /\ \A name \in Range(BuiltInIds) \cup {"Re-identification Risk"} :
               LET mine == MetricOf(LastReport, name).weight
                   theirs == MetricOf(LegacyReportOfLastRun, name).weight
               IN  mine.num * theirs.den = theirs.num * mine.den
        /\ LastReport.overallScore = LegacyReportOfLastRun.overallScore
        /\ getGrade(LastReport.overallScore)
               = getGrade(LegacyReportOfLastRun.overallScore)
        /\ getRiskLevel(LastReport.overallScore)
               = getRiskLevel(LegacyReportOfLastRun.overallScore)

(***************************************************************************)
(* Properties of the stored weights (Spec)                                 *)
(***************************************************************************)

\* C29: after any sequence of calls, the stored weight of every registered
\* plugin lies between 0 and 1 (in hundredths, between 0 and 100).
C29_StoredWeightsInUnitInterval ==
    \A i \in 1..Len(plugins) : 0 <= plugins[i].weight /\ plugins[i].weight <= 100

(***************************************************************************)
(* The thresholds a calculate works with (SpecCfg): l-diversity and        *)
(* t-closeness are registered, their configs are set, and executeAll is    *)
(* called with the configuration of an analysis.                           *)
(***************************************************************************)

\* DEFAULT_PRIVACY_CONFIG and a configuration of the caller's; tThreshold
\* in hundredths
AnalysisConfigs ==
    {[lThreshold |-> 2, lDiversityType |-> "distinct", tThreshold |-> 15],
     [lThreshold |-> 4, lDiversityType |-> "recursive", tThreshold |-> 50]}

\* The first lines of calculate(input, pluginConfig) of l-diversity and of
\* t-closeness: config = { ...DEFAULT_CONFIG, ...pluginConfig }, and each
\* threshold is input.config's unless that is null or undefined
calculateThresholds(plugin, inputConfig, pluginConfig) ==
    LET config == OrElse(pluginConfig, getDefaultConfig(plugin))
    IN  CASE plugin.kind = "l-diversity" ->
                 [lThreshold |-> OrElse(Some(inputConfig.lThreshold), config.lThreshold),
                  diversityType |-> OrElse(Some(inputConfig.lDiversityType),
                                           config.diversityType)]
          [] plugin.kind = "t-closeness" ->
                 [tThreshold |-> OrElse(Some(inputConfig.tThreshold), config.tThreshold)]

\* executeAll(input): the thresholds each registered plugin worked with,
\* calculate(input, registered.options.config)
ExecuteAllWithConfig ==
    \E inputConfig \in AnalysisConfigs :
        /\ last' = Call("executeAll", "", inputConfig,
                        [id \in Range(MapKeys(plugins)) |->
                            calculateThresholds(MapGet(plugins, id).plugin, inputConfig,
                                                Some(MapGet(plugins, id).config))])
        /\ UNCHANGED <<plugins, executionOrder, others>>

NextCfg ==
    \/ Register(RegistryPlugins, {NoOptions})
    \/ SetPluginConfig
    \/ ExecuteAllWithConfig

SpecCfg == Init /\ [][NextCfg]_vars

(***************************************************************************)
(* Properties of the plugin configuration (SpecCfg)                        *)
(***************************************************************************)

\* C30: after setPluginConfig(id, cfg) has returned true, the executeAll
\* that follows evaluates that plugin with cfg: the thresholds (and the
\* diversity type) it works with are those of cfg.
C30_ExecuteAllUsesPluginConfig ==
    [][ (/\ last.op = "setPluginConfig"
         /\ last.value = TRUE
         /\ last'.op = "executeAll")
        => last'.value[last.pluginId] = last.arg ]_vars

====
